---- MODULE Spec2Model ----
(***************************************************************************)
(* A model of the TradingView chart capture engine: the scraper            *)
(* (tview_scraper.py: session lifecycle, auth cookies, navigation and      *)
(* readiness, the two clipboard strategies, the result normalizers) and    *)
(* the MCP tool that drives it (main.py).                                  *)
(*                                                                         *)
(* Python strings and bytes are modelled as sequences: a string is a       *)
(* sequence of one-character strings, a bytes object a sequence of         *)
(* integers in 0..255.  An Optional[str] is a record with a none flag.     *)
(***************************************************************************)
EXTENDS Integers, Sequences, FiniteSets, TLC

VARIABLES
    normIn,     \* argument of convert_link_to_image_url
    normOut,    \* its return value
    normPc,     \* "idle" | "called" | "returned"
    imgIn,      \* argument of _convert_clipboard_to_image_url (bytes)
    imgOut,     \* its return value
    imgPc,      \* "idle" | "called" | "returned"
    req,        \* the request: [caller, api, ticker, interval]
    tokens,     \* TRADINGVIEW_SESSION_ID and _SIGN are both set in the environment
    use_save_shortcut,  \* TradingViewScraper.use_save_shortcut
    driver,     \* TradingViewScraper.driver: "None" | "live"
    pc,         \* position of the request in the capture
    entered,    \* the body of the with statement was entered
    driverStarts,   \* browser sessions created by webdriver.Chrome(...)
    quitCalls,  \* invocations of driver.quit()
    interacted, \* a navigation, cookie, script or key action was sent to the browser
    authResult, \* return value of _set_auth_cookies_optimized: "unset" | "True" | "False"
    navResult,  \* how _navigate_and_wait ended: "unset" | "ready" | "fallback" | a fault
    attempt,    \* loop variable of the strategy's retry loop (0-based)
    polls,      \* clipboard polls made in the current attempt's polling loop
    clipboard_content,  \* local variable of the strategy
    shortcutsSent,  \* primary capture shortcuts sent by the strategy
    emptyPolls, \* image clipboard reads that produced no image
    contentSeen,    \* some clipboard read of this capture produced content
    sendFaults, \* sends of a shortcut whose exception ended the attempt or the strategy
    strategyOutcome,    \* how the strategy function ended
    apiOutcome, \* how get_screenshot_link / get_chart_image_url ended
    toolOutcome,    \* what the caller of the whole capture gets
    event,      \* the operation performed by the last step
    callLog,    \* the __enter__ and close() calls made on one scraper object
    taskPc,     \* position of each concurrent tool invocation
    taskDriver, \* the driver of each invocation's scraper: 0 (None) or a browser
    browsers,   \* the browsers started so far: who sent commands to each, and is it live
    ppc,        \* phase of the readiness wait of _navigate_and_wait
    clock,      \* time.time() - start_time, in ticks
    wait_start, \* element_wait_start / loading_check_start / data_wait_start, in ticks
    interval,   \* argument of the prompt get_chart_prompt_timeframe
    mcp_interval,   \* the interval the prompt passes to the tool
    promptPc,   \* "idle" | "called" | "tool_called"
    clipboard,  \* the text navigator.clipboard.readText() gives
    call,       \* number of the current API call on the scraper (0: none yet)
    copying     \* the call whose capture shortcut the page is still working on (0: none)

normVars == <<normIn, normOut, normPc>>

imgVars == <<imgIn, imgOut, imgPc>>

configVars == <<req, tokens, use_save_shortcut>>

sessionVars == <<driver, entered, driverStarts, quitCalls>>

loopVars == <<attempt, polls, clipboard_content, shortcutsSent, emptyPolls, contentSeen, sendFaults>>

captureVars ==
    <<configVars, sessionVars, loopVars, pc, interacted, authResult, navResult,
      strategyOutcome, apiOutcome, toolOutcome, event>>

promptVars == <<interval, mcp_interval, promptPc>>

clipVars == <<clipboard, call, copying>>

extVars ==
    <<callLog, taskPc, taskDriver, browsers, ppc, clock, wait_start, promptVars, clipVars>>

vars == <<normVars, imgVars, captureVars, extVars>>

----------------------------------------------------------------------------
(* Optional values and small string helpers                                *)

None == [none |-> TRUE, val |-> <<>>]

Some(s) == [none |-> FALSE, val |-> s]

\* Python truthiness of an Optional[str]: None and "" are falsy
Truthy(o) == ~o.none /\ Len(o.val) > 0

\* s[i:i+len(lit)] == lit   (1-based i)
HasPrefixAt(s, i, lit) ==
    /\ i >= 1
    /\ i + Len(lit) - 1 <= Len(s)
    /\ \A k \in 1..Len(lit) : s[i + k - 1] = lit[k]

\* sub in s
Contains(s, sub) == \E i \in 1..(Len(s) + 1) : HasPrefixAt(s, i, sub)

\* s.startswith(lit)
StartsWith(s, lit) == HasPrefixAt(s, 1, lit)

\* s[i:]   (1-based i)
Tail_From(s, i) == IF i > Len(s) THEN <<>> ELSE SubSeq(s, i, Len(s))

UpperLetters == <<"A","B","C","D","E","F","G","H","I","J","K","L","M","N","O","P","Q","R","S","T","U","V","W","X","Y","Z">>

LowerLetters == <<"a","b","c","d","e","f","g","h","i","j","k","l","m","n","o","p","q","r","s","t","u","v","w","x","y","z">>

Digits == <<"0","1","2","3","4","5","6","7","8","9">>

Range(f) == {f[i] : i \in DOMAIN f}

\* the character class [a-zA-Z0-9]
IsAlnum(c) == c \in (Range(UpperLetters) \cup Range(LowerLetters) \cup Range(Digits))

\* str.lower() on one character
Lower(c) ==
    IF c \in Range(UpperLetters)
    THEN LowerLetters[CHOOSE i \in DOMAIN UpperLetters : UpperLetters[i] = c]
    ELSE c

\* str.replace(old, new): every non-overlapping occurrence, left to right
RECURSIVE ReplaceFrom(_, _, _, _)
ReplaceFrom(s, i, old, new) ==
    IF i > Len(s) THEN <<>>
    ELSE IF HasPrefixAt(s, i, old)
         THEN new \o ReplaceFrom(s, i + Len(old), old, new)
         ELSE <<s[i]>> \o ReplaceFrom(s, i + 1, old, new)

Replace(s, old, new) == ReplaceFrom(s, 1, old, new)

----------------------------------------------------------------------------
(* Result Normalizer: convert_link_to_image_url                            *)

HttpsLit == <<"h","t","t","p","s",":","/","/">>

WwwLit == <<"w","w","w",".">>

InLit == <<"i","n",".">>

HostLit == <<"t","r","a","d","i","n","g","v","i","e","w",".","c","o","m","/","x","/">>

SnapshotPrefix == <<"h","t","t","p","s",":","/","/","s","3",".","t","r","a","d","i","n","g","v","i","e","w",".","c","o","m","/","s","n","a","p","s","h","o","t","s","/">>

PngLit == <<".","p","n","g">>

\* two ids of share links
IdA == <<"A","b","C","d","E","f","1","2">>

IdQ == <<"Q">>

\* end (exclusive) of the greedy run [a-zA-Z0-9]* starting at i
RECURSIVE AlnumRunEnd(_, _)
AlnumRunEnd(s, i) ==
    IF i <= Len(s) /\ IsAlnum(s[i]) THEN AlnumRunEnd(s, i + 1) ELSE i

\* the pattern without its scheme and subdomain part: tradingview\.com/x/([a-zA-Z0-9]+)/?
MatchAt_NoScheme(s, i) ==
    LET c == IF HasPrefixAt(s, i, HostLit) THEN i + Len(HostLit) ELSE 0
        d == IF c = 0 THEN 0 ELSE AlnumRunEnd(s, c)
        e == IF d <= Len(s) /\ d > 0 /\ s[d] = "/" THEN d + 1 ELSE d
    IN  IF c # 0 /\ d > c
        THEN [found |-> TRUE, from |-> i, stop |-> e, idFrom |-> c, idTo |-> d - 1]
        ELSE [found |-> FALSE, from |-> i, stop |-> i, idFrom |-> 0, idTo |-> 0]

\* One regex match of
\*   https://(?:www\.|in\.)?tradingview\.com/x/([a-zA-Z0-9]+)/?
\* anchored at position i: [found, stop (exclusive end of group 0),
\* idFrom, idTo (group 1)].
MatchAt(s, i) ==
    LET a == IF HasPrefixAt(s, i, HttpsLit) THEN i + Len(HttpsLit) ELSE 0
        b == IF a = 0 THEN 0
             ELSE IF HasPrefixAt(s, a, WwwLit) THEN a + Len(WwwLit)
             ELSE IF HasPrefixAt(s, a, InLit) THEN a + Len(InLit)
             ELSE a
        c == IF b # 0 /\ HasPrefixAt(s, b, HostLit) THEN b + Len(HostLit) ELSE 0
        d == IF c = 0 THEN 0 ELSE AlnumRunEnd(s, c)
        e == IF d <= Len(s) /\ d > 0 /\ s[d] = "/" THEN d + 1 ELSE d
    IN  IF c # 0 /\ d > c
        THEN [found |-> TRUE, from |-> i, stop |-> e, idFrom |-> c, idTo |-> d - 1]
        ELSE [found |-> FALSE, from |-> i, stop |-> i, idFrom |-> 0, idTo |-> 0]

\* re.finditer(pattern, s): the non-overlapping matches, scanning left to right
RECURSIVE FindIterFrom(_, _)
FindIterFrom(s, i) ==
    IF i > Len(s) THEN <<>>
    ELSE LET m == MatchAt(s, i)
         IN  IF m.found THEN <<m>> \o FindIterFrom(s, m.stop)
             ELSE FindIterFrom(s, i + 1)

FindIter(s) == FindIterFrom(s, 1)

\* the new link is built on the host of the share links
NewLink_ShareHost(match_id) ==
    HttpsLit \o HostLit \o match_id \o PngLit

\* the shard taken from the id without case folding
NewLink_NoLower(match_id) ==
    SnapshotPrefix \o <<match_id[1]>> \o <<"/">> \o match_id \o PngLit

\* f"https://s3.tradingview.com/snapshots/{match_id[0].lower()}/{match_id}.png"
NewLink(match_id) ==
    SnapshotPrefix \o <<Lower(match_id[1])>> \o <<"/">> \o match_id \o PngLit

\* the loop body of convert_link_to_image_url, over the matches of the INPUT
RECURSIVE ConvertLoop(_, _, _, _)
ConvertLoop(input, matches, k, output_string) ==
    IF k > Len(matches) THEN output_string
    ELSE LET m == matches[k]
             match_id == SubSeq(input, m.idFrom, m.idTo)
             matched_url == SubSeq(input, m.from, m.stop - 1)
             new_link == NewLink(match_id)
         IN  IF Contains(output_string, matched_url)
             THEN ConvertLoop(input, matches, k + 1,
                              Replace(output_string, matched_url, new_link))
             ELSE ConvertLoop(input, matches, k + 1, output_string)

convert_link_to_image_url(input_string) ==
    IF ~Truthy(input_string) THEN None
    ELSE Some(ConvertLoop(input_string.val, FindIter(input_string.val), 1,
                          input_string.val))

----------------------------------------------------------------------------
(* Result Normalizer: image bytes -> inline data URL                       *)

B64Alphabet == <<"A","B","C","D","E","F","G","H","I","J","K","L","M","N","O","P","Q","R","S","T","U","V","W","X","Y","Z","a","b","c","d","e","f","g","h","i","j","k","l","m","n","o","p","q","r","s","t","u","v","w","x","y","z","0","1","2","3","4","5","6","7","8","9","+","/">>

DataUrlPrefix == <<"d","a","t","a",":","i","m","a","g","e","/","p","n","g",";","b","a","s","e","6","4",",">>

DataImageLit == <<"d","a","t","a",":","i","m","a","g","e","/">>

B64Char(n) == B64Alphabet[n + 1]

\* base64 without the "=" padding of the last group
RECURSIVE b64encode_NoPad(_)
b64encode_NoPad(b) ==
    IF Len(b) = 0 THEN <<>>
    ELSE IF Len(b) = 1
    THEN <<B64Char(b[1] \div 4), B64Char((b[1] % 4) * 16)>>
    ELSE IF Len(b) = 2
    THEN <<B64Char(b[1] \div 4),
           B64Char((b[1] % 4) * 16 + b[2] \div 16),
           B64Char((b[2] % 16) * 4)>>
    ELSE <<B64Char(b[1] \div 4),
           B64Char((b[1] % 4) * 16 + b[2] \div 16),
           B64Char((b[2] % 16) * 4 + b[3] \div 64),
           B64Char(b[3] % 64)>> \o b64encode_NoPad(SubSeq(b, 4, Len(b)))

\* base64.b64encode(b).decode("utf-8"): three bytes to four characters, the
\* last group padded with "="
RECURSIVE b64encode(_)
b64encode(b) ==
    IF Len(b) = 0 THEN <<>>
    ELSE IF Len(b) = 1
    THEN <<B64Char(b[1] \div 4), B64Char((b[1] % 4) * 16), "=", "=">>
    ELSE IF Len(b) = 2
    THEN <<B64Char(b[1] \div 4),
           B64Char((b[1] % 4) * 16 + b[2] \div 16),
           B64Char((b[2] % 16) * 4), "=">>
    ELSE <<B64Char(b[1] \div 4),
           B64Char((b[1] % 4) * 16 + b[2] \div 16),
           B64Char((b[2] % 16) * 4 + b[3] \div 64),
           B64Char(b[3] % 64)>> \o b64encode(SubSeq(b, 4, Len(b)))

B64Index(c) == (CHOOSE i \in DOMAIN B64Alphabet : B64Alphabet[i] = c) - 1

\* base64.b64decode(data) (not validating): characters outside the alphabet
\* are skipped, a sufficient run of "=" ends the input, an incomplete last
\* group is an error.  quad_pos, leftchar and pads as in the decoder's loop.
RECURSIVE B64DecodeFrom(_, _, _, _, _, _)
B64DecodeFrom(data, i, quad_pos, leftchar, pads, out) ==
    IF i > Len(data)
    THEN [ok |-> quad_pos = 0, bytes |-> out]
    ELSE LET ch == data[i]
         IN  IF ch = "="
             THEN IF quad_pos >= 2 /\ quad_pos + pads + 1 >= 4
                  THEN [ok |-> TRUE, bytes |-> out]
                  ELSE B64DecodeFrom(data, i + 1, quad_pos, leftchar,
                                     IF quad_pos >= 2 THEN pads + 1 ELSE pads, out)
             ELSE IF ch \notin Range(B64Alphabet)
             THEN B64DecodeFrom(data, i + 1, quad_pos, leftchar, pads, out)
             ELSE LET v == B64Index(ch)
                  IN  CASE quad_pos = 0 ->
                             B64DecodeFrom(data, i + 1, 1, v, 0, out)
                        [] quad_pos = 1 ->
                             B64DecodeFrom(data, i + 1, 2, v % 16, 0,
                                           Append(out, leftchar * 4 + v \div 16))
                        [] quad_pos = 2 ->
                             B64DecodeFrom(data, i + 1, 3, v % 4, 0,
                                           Append(out, leftchar * 16 + v \div 4))
                        [] OTHER ->
                             B64DecodeFrom(data, i + 1, 0, 0, 0,
                                           Append(out, leftchar * 64 + v))

b64decode(data) == B64DecodeFrom(data, 1, 0, 0, 0, <<>>)

\* _convert_clipboard_to_image_url(image_data)
_convert_clipboard_to_image_url(image_data) ==
    DataUrlPrefix \o b64encode(image_data)

\* image_data_url.split(",", 1)[1]
AfterFirstComma(s) ==
    LET i == CHOOSE i \in 1..Len(s) : s[i] = "," /\ \A k \in 1..(i - 1) : s[k] # ","
    IN  Tail_From(s, i + 1)

\* the tail of _read_image_from_clipboard: what it returns for the value
\* image_data_url handed back by the clipboard script (None: no image bytes)
ImageBytesOf(image_data_url) ==
    IF Truthy(image_data_url) /\ StartsWith(image_data_url.val, DataImageLit)
    THEN Some(b64decode(AfterFirstComma(image_data_url.val)).bytes)
    ELSE None

MaxBytes == 4

ByteSamples == {0, 1, 77, 128, 255}

ImageInputs == UNION { [1..n -> ByteSamples] : n \in 0..MaxBytes }

----------------------------------------------------------------------------
(* The capture: constants, clipboard payloads and outcomes                 *)

MAX_CLIPBOARD_ATTEMPTS == 5

\* polls of one polling loop before its time bound expires
MaxPolls == 2

Tickers == {"", "NASDAQ:AAPL"}

Intervals == {"", "D"}

\* the MCP tool of main.py, or any other code that runs one API call of the
\* scraper inside "with TradingViewScraper(...) as scraper"
Requests ==
    { [caller |-> "mcp_tool", api |-> "get_screenshot_link", ticker |-> t, interval |-> i] :
        t \in Tickers, i \in Intervals }
    \cup
    { [caller |-> "library", api |-> a, ticker |-> t, interval |-> i] :
        a \in {"get_screenshot_link", "get_chart_image_url"},
        t \in Tickers, i \in Intervals }

\* detail: the text of the exception an exception message was built from
NoOutcome == [kind |-> "pending", val |-> None, exc |-> "", msg |-> "", detail |-> ""]

Returned(v) == [kind |-> "returned", val |-> v, exc |-> "", msg |-> "", detail |-> ""]

Raised(e, m) == [kind |-> "raised", val |-> None, exc |-> e, msg |-> m, detail |-> ""]

\* raise Exception(f"{m}: {cause}")
RaisedFrom(e, m, cause) == [Raised(e, m) EXCEPT !.detail = cause.msg]

SharePayload == <<" ">> \o HttpsLit \o WwwLit \o HostLit \o IdA \o <<"/", " ">>

PlainPayload == <<"Q","W","e","r">>

ServerErrorLit == <<"S","e","r","v","e","r"," ","E","r","r","o","r">>

BadInputLit == <<"B","a","d"," ","I","n","p","u","t">>

GatewayLit == <<"B","a","d"," ","G","a","t","e","w","a","y">>

\* {"success": false, "code": 50000, "msg": "Server Error"}
ServerErrorText == <<"{","\"","s","u","c","c","e","s","s","\"",":"," ","f","a","l","s","e",","," ","\"","c","o","d","e","\"",":"," ","5","0","0","0","0",","," ","\"","m","s","g","\"",":"," ","\"","S","e","r","v","e","r"," ","E","r","r","o","r","\"","}">>

\* {"success": false, "code": 40099, "msg": "Bad Input"}
BadInputText == <<"{","\"","s","u","c","c","e","s","s","\"",":"," ","f","a","l","s","e",","," ","\"","c","o","d","e","\"",":"," ","4","0","0","9","9",","," ","\"","m","s","g","\"",":"," ","\"","B","a","d"," ","I","n","p","u","t","\"","}">>

\* {"success": false, "code": 40099, "msg": "Server Error"}
OddServerErrorText == <<"{","\"","s","u","c","c","e","s","s","\"",":"," ","f","a","l","s","e",","," ","\"","c","o","d","e","\"",":"," ","4","0","0","9","9",","," ","\"","m","s","g","\"",":"," ","\"","S","e","r","v","e","r"," ","E","r","r","o","r","\"","}">>

\* {"success": false, "code": "502", "msg": "Bad Gateway"}
GatewayText == <<"{","\"","s","u","c","c","e","s","s","\"",":"," ","f","a","l","s","e",","," ","\"","c","o","d","e","\"",":"," ","\"","5","0","2","\"",","," ","\"","m","s","g","\"",":"," ","\"","B","a","d"," ","G","a","t","e","w","a","y","\"","}">>

\* what navigator.clipboard.readText() may hand back
TextPayloads ==
    { None, Some(<<>>), Some(<<" ">>), Some(SharePayload), Some(PlainPayload),
      Some(ServerErrorText), Some(BadInputText), Some(OddServerErrorText),
      Some(GatewayText) }

ImageSamples == { <<>>, <<137, 80, 78>>, <<255, 0>> }

\* what the clipboard script of _read_image_from_clipboard may hand back:
\* null, the data URL of an image, or a data URL of another type
ImagePayloads ==
    { None, Some(<<"d","a","t","a",":","t","e","x","t","/","p","l","a","i","n",",","Q","Q","=","=">>) }
    \cup { Some(DataImageLit \o <<"p","n","g",";","b","a","s","e","6","4",",">> \o b64encode(b)) :
             b \in ImageSamples }

\* a WebDriverException raised by a driver call instead of a value
DriverFault == [none |-> TRUE, val |-> <<"W","e","b","D","r","i","v","e","r","E","x","c","e","p","t","i","o","n">>]

IsWhitespace(c) == c \in {" ", "\t", "\n", "\r"}

\* str.strip()
RECURSIVE Strip(_)
Strip(s) ==
    IF Len(s) = 0 THEN s
    ELSE IF IsWhitespace(s[1]) THEN Strip(Tail(s))
    ELSE IF IsWhitespace(s[Len(s)]) THEN Strip(SubSeq(s, 1, Len(s) - 1))
    ELSE s

\* "x and x.strip()" on the value of a clipboard read
HasContent(o) == Truthy(o) /\ Len(Strip(o.val)) > 0

JsonCode(t, digits) == [type |-> t, v |-> digits]

NotJson == [ok |-> FALSE, isDict |-> FALSE, hasCode |-> FALSE, hasMsg |-> FALSE,
            success |-> "absent", code |-> JsonCode("none", <<>>), msg |-> <<>>]

JsonError(code, msg) ==
    [ok |-> TRUE, isDict |-> TRUE, hasCode |-> TRUE, hasMsg |-> TRUE,
     success |-> "false", code |-> code, msg |-> msg]

\* json.loads on the clipboard texts of the model; any other text raises
\* json.JSONDecodeError
json_loads(text) ==
    CASE text = ServerErrorText -> JsonError(JsonCode("int", <<"5","0","0","0","0">>), ServerErrorLit)
      [] text = BadInputText -> JsonError(JsonCode("int", <<"4","0","0","9","9">>), BadInputLit)
      [] text = OddServerErrorText -> JsonError(JsonCode("int", <<"4","0","0","9","9">>), ServerErrorLit)
      [] text = GatewayText -> JsonError(JsonCode("str", <<"5","0","2">>), GatewayLit)
      [] OTHER -> NotJson

retryable_codes ==
    { JsonCode(t, d) : t \in {"str", "int"},
                       d \in { <<"4","0","0","0","1">>, <<"5","0","0","0","0">>,
                               <<"5","0","2">>, <<"5","0","3">> } }

\* the check of the text path on a non-blank clipboard text: TRUE when it
\* raises TradingViewClipboardServerError
IsRetryableServerError(content) ==
    LET response == json_loads(content)
    IN  /\ response.ok
        /\ response.isDict
        /\ response.hasCode
        /\ response.hasMsg
        /\ response.success = "false"
        /\ (response.code \in retryable_codes \/ Contains(response.msg, ServerErrorLit))

\* image_url.startswith("https://s3.tradingview.com/snapshots/") or
\* image_url.startswith("data:image/"), for a truthy image_url
ExpectedShape(v) ==
    Truthy(v) /\ (StartsWith(v.val, SnapshotPrefix) \/ StartsWith(v.val, DataImageLit))

\* get_chart_image_url gives None for a result of another shape
ApiOnReturn_ChecksShape(api, v) ==
    IF api = "get_chart_image_url" /\ ~ExpectedShape(v) THEN Returned(None)
    ELSE Returned(v)

\* what the API method makes of the value its strategy returned:
\* get_screenshot_link returns it; get_chart_image_url logs whether it has
\* the expected shape and returns it
ApiOnReturn(api, v) == Returned(v)

\* what the try/except of the API method makes of an exception raised in its body
ApiOnException_Reraise(api, exc, msg) == Raised(exc, msg)

ApiOnException(api, exc, msg) ==
    IF api = "get_chart_image_url" THEN Returned(None)
    ELSE IF exc = "TradingViewScraperError" THEN Raised(exc, msg)
    ELSE IF exc = "WebDriverException"
    THEN Raised("TradingViewScraperError", "Screenshot capture failed due to WebDriver error")
    ELSE Raised("TradingViewScraperError", "An unexpected error occurred during screenshot capture")

\* the except clauses of the caller around the with statement
CallerExcept(caller, out) ==
    IF out.kind # "raised" \/ caller # "mcp_tool" THEN out
    ELSE IF out.exc = "TradingViewScraperError" THEN RaisedFrom("Exception", "Scraper Error", out)
    ELSE IF out.exc = "ValueError" THEN RaisedFrom("Exception", "Input Error", out)
    ELSE RaisedFrom("Exception", "Unexpected error", out)

\* calls: the driver calls made, outs: how each ended, result: how the
\* function ended
NoCalls == [calls |-> <<>>, outs |-> <<>>, result |-> "unset"]

\* log: the driver calls of the function the step ran, where they are told apart
Ev(op) == [op |-> op, read |-> None, log |-> NoCalls]

EvRead(op, r) == [op |-> op, read |-> r, log |-> NoCalls]

CaptureIdle ==
    /\ req = [caller |-> "library", api |-> "get_screenshot_link", ticker |-> "", interval |-> ""]
    /\ tokens = FALSE
    /\ use_save_shortcut = TRUE
    /\ driver = "None"
    /\ pc = "idle"
    /\ entered = FALSE
    /\ driverStarts = 0
    /\ quitCalls = 0
    /\ interacted = FALSE
    /\ authResult = "unset"
    /\ navResult = "unset"
    /\ attempt = 0
    /\ polls = 0
    /\ clipboard_content = None
    /\ shortcutsSent = 0
    /\ emptyPolls = 0
    /\ contentSeen = FALSE
    /\ sendFaults = 0
    /\ strategyOutcome = NoOutcome
    /\ apiOutcome = NoOutcome
    /\ toolOutcome = NoOutcome
    /\ event = Ev("init")

----------------------------------------------------------------------------
(* Inputs of the normalizer: strings assembled from a few fragments        *)

MaxChunks == 4

NormChunks ==
    { HttpsLit \o WwwLit \o HostLit,
      HttpsLit \o InLit \o HostLit,
      HttpsLit \o HostLit,
      HostLit,
      HttpsLit \o <<"s","3",".">>,
      IdA, IdQ,
      <<"/">>, <<" ">>, <<"_">> }

RECURSIVE Flatten(_)
Flatten(ss) == IF ss = <<>> THEN <<>> ELSE Head(ss) \o Flatten(Tail(ss))

ChunkSeqs == UNION { [1..n -> NormChunks] : n \in 0..MaxChunks }

\* texts with several share links
MaxLinks == 3

\* a share link with the text that follows it, or a piece of other text
LinkChunks ==
    { l \o id \o sep : l \in {HttpsLit \o WwwLit \o HostLit, HttpsLit \o HostLit},
                        id \in {IdQ, IdQ \o IdA},
                        sep \in {<<" ">>, <<"/">>} }
    \cup { <<"_">> }

LinkLists == UNION { [1..n -> LinkChunks] : n \in 2..MaxLinks }

LinkInputs == { Some(Flatten(cs)) : cs \in LinkLists }

NormInputs == {None} \cup { Some(Flatten(cs)) : cs \in ChunkSeqs }

----------------------------------------------------------------------------
(* Specification of the normalizer on its own                              *)

NormIdle == normIn = None /\ normOut = None /\ normPc = "idle"

ImgIdle == imgIn = <<>> /\ imgOut = <<>> /\ imgPc = "idle"

\* concurrent invocations of the tool
MaxTasks == 3

Tasks == 1..MaxTasks

PromptIdle == interval = <<>> /\ mcp_interval = <<>> /\ promptPc = "idle"

ClipIdle == clipboard = <<>> /\ call = 0 /\ copying = 0

ExtIdle ==
    /\ callLog = <<>>
    /\ taskPc = [t \in Tasks |-> "idle"]
    /\ taskDriver = [t \in Tasks |-> 0]
    /\ browsers = <<>>
    /\ ppc = "idle"
    /\ clock = 0
    /\ wait_start = 0
    /\ PromptIdle
    /\ ClipIdle

InitNorm ==
    /\ (normIn \in NormInputs \/ normIn \in LinkInputs)
    /\ normOut = None
    /\ normPc = "called"
    /\ ImgIdle
    /\ CaptureIdle
    /\ ExtIdle

NormConvert ==
    /\ normPc = "called"
    /\ normOut' = convert_link_to_image_url(normIn)
    /\ normPc' = "returned"
    /\ UNCHANGED <<normIn, imgVars, captureVars, extVars>>

NextNorm == NormConvert

SpecNorm == InitNorm /\ [][NextNorm]_vars

----------------------------------------------------------------------------
(* Specification of the image-bytes normalizer on its own                  *)

InitImg ==
    /\ imgIn \in ImageInputs
    /\ imgOut = <<>>
    /\ imgPc = "called"
    /\ NormIdle
    /\ CaptureIdle
    /\ ExtIdle

ImgConvert ==
    /\ imgPc = "called"
    /\ imgOut' = _convert_clipboard_to_image_url(imgIn)
    /\ imgPc' = "returned"
    /\ UNCHANGED <<imgIn, normVars, captureVars, extVars>>

NextImg == ImgConvert

SpecImg == InitImg /\ [][NextImg]_vars

----------------------------------------------------------------------------
(* The capture: session, validation, auth, navigation                      *)

InitCapture ==
    /\ req \in Requests
    /\ tokens \in BOOLEAN
    /\ use_save_shortcut \in BOOLEAN
    \* main.py exits at start-up without the tokens and builds the scraper
    \* with the default use_save_shortcut=True
    /\ req.caller = "mcp_tool" => (tokens /\ use_save_shortcut)
    /\ driver = "None"
    /\ pc = "start"
    /\ entered = FALSE
    /\ driverStarts = 0
    /\ quitCalls = 0
    /\ interacted = FALSE
    /\ authResult = "unset"
    /\ navResult = "unset"
    /\ attempt = 0
    /\ polls = 0
    /\ clipboard_content = None
    /\ shortcutsSent = 0
    /\ emptyPolls = 0
    /\ contentSeen = FALSE
    /\ sendFaults = 0
    /\ strategyOutcome = NoOutcome
    /\ apiOutcome = NoOutcome
    /\ toolOutcome = NoOutcome
    /\ event = Ev("init")
    /\ NormIdle
    /\ ImgIdle
    /\ ExtIdle

SetupOutcomes == {"ok", "path_error", "chrome_error", "config_error", "other_error"}

\* the exception _setup_driver ends with
SetupFailure(o) ==
    IF o = "path_error"
    THEN Raised("TradingViewScraperError", "Failed to get ChromeDriver path")
    ELSE IF o = "other_error" THEN Raised("Exception", "browser start failed")
    ELSE Raised("TradingViewScraperError", "WebDriver initialization failed")

\* with TradingViewScraper(...) as scraper: __enter__ runs _setup_driver.
\* path_error: no ChromeDriver; chrome_error / other_error: webdriver.Chrome
\* raised; config_error: the browser was created and a later call of the
\* try block raised.  On a failure the with body and __exit__ do not run.
Enter ==
    /\ pc = "start"
    /\ \E o \in SetupOutcomes :
        LET created == o \in {"ok", "config_error"}
        IN  /\ driver' = IF created THEN "live" ELSE "None"
            /\ driverStarts' = IF created THEN driverStarts + 1 ELSE driverStarts
            /\ entered' = (o = "ok")
            /\ pc' = IF o = "ok" THEN "validate" ELSE "done"
            /\ toolOutcome' = IF o = "ok" THEN toolOutcome
                              ELSE CallerExcept(req.caller, SetupFailure(o))
    /\ event' = Ev("enter")
    /\ UNCHANGED <<normVars, imgVars, extVars, configVars, quitCalls, loopVars, interacted,
                   authResult, navResult, strategyOutcome, apiOutcome>>

\* the check of the arguments goes straight to the navigation
Validate_SkipAuth ==
    /\ pc = "validate"
    /\ IF driver = "None"
       THEN /\ apiOutcome' = Raised("TradingViewScraperError", "Driver not initialized")
            /\ pc' = "after_api"
       ELSE IF req.ticker = "" \/ req.interval = ""
       THEN /\ apiOutcome' = Raised("ValueError", "Ticker and Interval must be provided.")
            /\ pc' = "after_api"
       ELSE /\ apiOutcome' = apiOutcome
            /\ pc' = "navigate"
    /\ event' = Ev("validate")
    /\ UNCHANGED <<normVars, imgVars, extVars, configVars, sessionVars, loopVars, interacted,
                   authResult, navResult, strategyOutcome, toolOutcome>>

\* the two checks at the top of get_screenshot_link and get_chart_image_url
Validate ==
    /\ pc = "validate"
    /\ IF driver = "None"
       THEN /\ apiOutcome' = Raised("TradingViewScraperError", "Driver not initialized")
            /\ pc' = "after_api"
       ELSE IF req.ticker = "" \/ req.interval = ""
       THEN /\ apiOutcome' = Raised("ValueError", "Ticker and Interval must be provided.")
            /\ pc' = "after_api"
       ELSE /\ apiOutcome' = apiOutcome
            /\ pc' = "auth"
    /\ event' = Ev("validate")
    /\ UNCHANGED <<normVars, imgVars, extVars, configVars, sessionVars, loopVars, interacted,
                   authResult, navResult, strategyOutcome, toolOutcome>>

\* how one call of the driver ends: it returns, raises a WebDriverException
\* (TimeoutException is one), or raises something else
CallOutcomes == {"ok", "driver_fault", "other_fault"}

\* the cookies are added before the page is loaded
AuthSteps_CookiesFirst ==
    <<"add_cookie sessionid", "add_cookie sessionid_sign", "get", "refresh">>

\* the driver calls of the try block of _set_auth_cookies_optimized
AuthSteps == <<"get", "add_cookie sessionid", "add_cookie sessionid_sign", "refresh">>

\* a try block of driver calls made one after the other, ending with
\* "return True"; "except (WebDriverException, TimeoutException): return
\* False".  outs[i] is how the i-th call ends if it is made.
TryCalls(steps, outs) ==
    LET bad == {i \in DOMAIN steps : outs[i] # "ok"}
        n == IF bad = {} THEN Len(steps) ELSE CHOOSE i \in bad : \A j \in bad : i <= j
    IN  [calls |-> SubSeq(steps, 1, n),
         outs |-> SubSeq(outs, 1, n),
         result |-> IF bad = {} THEN "True"
                    ELSE IF outs[n] = "driver_fault" THEN "False" ELSE "raised"]

\* the ways the try block of _set_auth_cookies_optimized can run
AuthRuns == { TryCalls(AuthSteps, outs) : outs \in [DOMAIN AuthSteps -> CallOutcomes] }

\* _set_auth_cookies_optimized: False without the tokens or the driver; else
\* driver.get, two add_cookie, driver.refresh, a WebDriverException of any
\* of them giving False; another exception leaves through the API method's
\* except clauses
Auth ==
    /\ pc = "auth"
    /\ IF ~tokens \/ driver = "None"
       THEN /\ authResult' = "False"
            /\ event' = [Ev("auth") EXCEPT !.log = [NoCalls EXCEPT !.result = "False"]]
            /\ interacted' = interacted
            /\ pc' = "navigate"
            /\ apiOutcome' = apiOutcome
       ELSE \E a \in AuthRuns :
                /\ event' = [Ev("auth") EXCEPT !.log = a]
                /\ interacted' = TRUE
                /\ authResult' = IF a.result = "raised" THEN "unset" ELSE a.result
                /\ pc' = IF a.result = "raised" THEN "after_api" ELSE "navigate"
                /\ apiOutcome' = IF a.result = "raised"
                                 THEN ApiOnException(req.api, "Exception", "auth")
                                 ELSE apiOutcome
    /\ UNCHANGED <<normVars, imgVars, extVars, configVars, sessionVars, loopVars,
                   navResult, strategyOutcome, toolOutcome>>

NavOutcomes == {"ready", "fallback", "get_fault", "wait_fault", "other_fault"}

NavFailure(o) ==
    IF o = "other_fault" THEN Raised("Exception", "navigation")
    ELSE Raised("TradingViewScraperError", "Navigation failed")

\* every exception of the navigation is swallowed and the capture goes on
NavProceeds_Always(o) == TRUE

\* _navigate_and_wait returns: the waits ran to their end, or the
\* TimeoutException of the infrastructure wait was caught by the inner
\* except clause; every other exception leaves the function
NavProceeds(o) == o \in {"ready", "fallback"}

\* _navigate_and_wait: driver.get, then the readiness waits.  ready: the
\* waits ran to their end; fallback: the infrastructure wait timed out;
\* get_fault / wait_fault: a WebDriverException of driver.get / of the
\* infrastructure wait, re-raised as TradingViewScraperError
Navigate ==
    /\ pc = "navigate"
    /\ \E o \in NavOutcomes :
        /\ navResult' = o
        /\ IF NavProceeds(o)
           THEN /\ pc' = IF req.api = "get_chart_image_url" THEN "clear" ELSE "link_send"
                /\ apiOutcome' = apiOutcome
           ELSE /\ pc' = "after_api"
                /\ apiOutcome' = ApiOnException(req.api, NavFailure(o).exc, NavFailure(o).msg)
    /\ interacted' = TRUE
    /\ event' = Ev("navigate")
    /\ UNCHANGED <<normVars, imgVars, extVars, configVars, sessionVars, loopVars, authResult,
                   strategyOutcome, toolOutcome>>

\* get_chart_image_url clears the browser clipboard; a WebDriverException
\* of the script is logged and ignored
ClearClipboard ==
    /\ pc = "clear"
    /\ pc' = "gcc_send"
    /\ event' = Ev("clear_clipboard")
    /\ UNCHANGED <<normVars, imgVars, extVars, configVars, sessionVars, loopVars, interacted,
                   authResult, navResult, strategyOutcome, apiOutcome, toolOutcome>>

----------------------------------------------------------------------------
(* The capture: the two clipboard strategies                               *)

SendOutcomes == {"ok", "driver_fault", "other_fault"}

\* a read of the text clipboard: a payload, or a WebDriverException
TextReads == TextPayloads \cup {DriverFault}

\* a read of the image clipboard: a payload, or a WebDriverException
ImageReads == ImagePayloads \cup {DriverFault}

\* the clock of a polling loop stands still
NextPoll_Frozen(n) == n

\* a round of a polling loop ends in time.sleep, which moves the clock
\* towards the loop's time bound
NextPoll(n) == n + 1

\* the retry loop ends one attempt early
LastAttempt_OffByOne(a) == a + 2 >= MAX_CLIPBOARD_ATTEMPTS

\* "for attempt in range(self.MAX_CLIPBOARD_ATTEMPTS)": a is the last attempt
LastAttempt(a) == a + 1 >= MAX_CLIPBOARD_ATTEMPTS

\* the strategy function ends with outcome so, the API method with ao
StrategyEnds(so, ao) ==
    /\ strategyOutcome' = so
    /\ apiOutcome' = ao
    /\ pc' = "after_api"
    /\ UNCHANGED <<attempt, polls>>

\* the strategy returns v, and the API method returns it unchanged
StrategyReturns(v) == StrategyEnds(Returned(v), ApiOnReturn(req.api, v))

\* an exception leaves the strategy and meets the API method's except clauses
StrategyRaises(exc, msg) ==
    StrategyEnds(Raised(exc, msg), ApiOnException(req.api, exc, msg))

\* the strategy goes on inside the current attempt
Continue(to, n) ==
    /\ pc' = to
    /\ polls' = n
    /\ UNCHANGED <<attempt, strategyOutcome, apiOutcome>>

\* _trigger_screenshot_and_get_link gives the attempt up: the next attempt,
\* or "return None" after the last one
LinkNextAttempt ==
    /\ attempt' = attempt + 1
    /\ polls' = 0
    /\ IF LastAttempt(attempt)
       THEN /\ strategyOutcome' = Returned(None)
            /\ apiOutcome' = Returned(None)
            /\ pc' = "after_api"
       ELSE /\ pc' = "link_send"
            /\ UNCHANGED <<strategyOutcome, apiOutcome>>

\* _get_clipboard_content gives the attempt up: the next attempt, or the
\* TradingViewScraperError after the last one
GccNextAttempt ==
    /\ attempt' = attempt + 1
    /\ polls' = 0
    /\ IF LastAttempt(attempt)
       THEN /\ strategyOutcome' =
                 Raised("TradingViewScraperError",
                        "Failed to get clipboard content after multiple attempts")
            /\ apiOutcome' =
                 ApiOnException(req.api, "TradingViewScraperError",
                                "Failed to get clipboard content after multiple attempts")
            /\ pc' = "after_api"
       ELSE /\ pc' = "gcc_send"
            /\ UNCHANGED <<strategyOutcome, apiOutcome>>

\* _trigger_screenshot_and_get_link: Alt+S.  A WebDriverException breaks
\* the loop and the function returns None; another exception leaves it
LinkSend ==
    /\ pc = "link_send"
    /\ \E o \in SendOutcomes :
        /\ shortcutsSent' = IF o = "ok" THEN shortcutsSent + 1 ELSE shortcutsSent
        /\ sendFaults' = IF o = "ok" THEN sendFaults ELSE sendFaults + 1
        /\ IF o = "ok" THEN Continue("link_poll", 0)
           ELSE IF o = "driver_fault" THEN StrategyReturns(None)
           ELSE StrategyRaises("Exception", "shortcut")
    /\ interacted' = TRUE
    /\ event' = Ev("link_send")
    /\ UNCHANGED <<normVars, imgVars, extVars, configVars, sessionVars, clipboard_content,
                   emptyPolls, contentSeen, authResult, navResult, toolOutcome>>

\* one round of the polling loop of _trigger_screenshot_and_get_link
LinkPoll ==
    /\ pc = "link_poll"
    /\ polls < MaxPolls
    /\ \E r \in TextReads :
        /\ event' = EvRead("link_read", r)
        /\ IF r # DriverFault /\ HasContent(r)
           THEN /\ clipboard_content' = Some(Strip(r.val))
                /\ contentSeen' = TRUE
                /\ StrategyReturns(Some(Strip(r.val)))
           ELSE /\ Continue("link_poll", NextPoll(polls))
                /\ UNCHANGED <<clipboard_content, contentSeen>>
    /\ UNCHANGED <<normVars, imgVars, extVars, configVars, sessionVars, shortcutsSent,
                   emptyPolls, sendFaults, interacted, authResult, navResult,
                   toolOutcome>>

\* the polling loop ran out of time: the final read of the attempt
LinkFinalRead ==
    /\ pc = "link_poll"
    /\ polls >= 1
    /\ \E r \in TextReads :
        LET content == IF r = DriverFault THEN None ELSE r
        IN  /\ event' = EvRead("link_read", r)
            /\ IF HasContent(content)
               THEN /\ clipboard_content' = content
                    /\ contentSeen' = TRUE
                    /\ StrategyReturns(Some(Strip(content.val)))
               ELSE /\ clipboard_content' = None
                    /\ contentSeen' = contentSeen
                    /\ LinkNextAttempt
    /\ UNCHANGED <<normVars, imgVars, extVars, configVars, sessionVars, shortcutsSent,
                   emptyPolls, sendFaults, interacted, authResult, navResult,
                   toolOutcome>>

\* _get_clipboard_content: _send_save_shortcut.  A WebDriverException is
\* caught by the loop and ends the attempt; another exception leaves it
GccSend ==
    /\ pc = "gcc_send"
    /\ \E o \in SendOutcomes :
        /\ shortcutsSent' = IF o = "ok" THEN shortcutsSent + 1 ELSE shortcutsSent
        /\ sendFaults' = IF o = "ok" THEN sendFaults ELSE sendFaults + 1
        /\ IF o = "ok"
           THEN Continue(IF use_save_shortcut THEN "gcc_image" ELSE "gcc_poll", 0)
           ELSE IF o = "driver_fault" THEN GccNextAttempt
           ELSE StrategyRaises("Exception", "shortcut")
    /\ interacted' = TRUE
    /\ event' = Ev("gcc_send")
    /\ UNCHANGED <<normVars, imgVars, extVars, configVars, sessionVars, clipboard_content,
                   emptyPolls, contentSeen, authResult, navResult, toolOutcome>>

\* what the image branch does with the value of _read_image_from_clipboard:
\* nothing read is polled a second time within the attempt
ImageReadStep_PollTwice(image_data) ==
    IF Truthy(image_data)
    THEN /\ contentSeen' = TRUE
         /\ emptyPolls' = emptyPolls
         /\ StrategyReturns(Some(_convert_clipboard_to_image_url(image_data.val)))
    ELSE /\ contentSeen' = contentSeen
         /\ emptyPolls' = emptyPolls + 1
         /\ IF polls = 0 THEN Continue("gcc_image", 1) ELSE GccNextAttempt

\* image data is treated like an empty clipboard: the attempt is given up
ImageReadStep_RetryAfterData(image_data) ==
    /\ contentSeen' = Truthy(image_data) \/ contentSeen
    /\ emptyPolls' = IF Truthy(image_data) THEN emptyPolls ELSE emptyPolls + 1
    /\ GccNextAttempt

\* what the image branch does with the value of _read_image_from_clipboard
ImageReadStep(image_data) ==
    IF Truthy(image_data)
    THEN /\ contentSeen' = TRUE
         /\ emptyPolls' = emptyPolls
         /\ StrategyReturns(Some(_convert_clipboard_to_image_url(image_data.val)))
    ELSE /\ contentSeen' = contentSeen
         /\ emptyPolls' = emptyPolls + 1
         /\ GccNextAttempt

\* the image branch of _get_clipboard_content (use_save_shortcut): one read
\* of the image clipboard per attempt
GccImageRead ==
    /\ pc = "gcc_image"
    /\ \E r \in ImageReads :
        /\ event' = EvRead("gcc_image_read", r)
        /\ ImageReadStep(IF r = DriverFault THEN None ELSE ImageBytesOf(r))
    /\ UNCHANGED <<normVars, imgVars, extVars, configVars, sessionVars, clipboard_content,
                   shortcutsSent, sendFaults, interacted, authResult, navResult,
                   toolOutcome>>

\* the server error leaves the strategy instead of ending the attempt
TextContentStep_Propagates(content) ==
    IF IsRetryableServerError(content.val)
    THEN StrategyRaises("TradingViewClipboardServerError", "Server error in clipboard")
    ELSE StrategyReturns(content)

\* lines 788-827: a non-blank clipboard text is checked for a server error
\* and raises TradingViewClipboardServerError, which the loop catches, or is
\* returned
TextContentStep(content) ==
    IF IsRetryableServerError(content.val)
    THEN GccNextAttempt
    ELSE StrategyReturns(content)

\* one round of the text polling loop of _get_clipboard_content
GccTextPoll ==
    /\ pc = "gcc_poll"
    /\ polls < MaxPolls
    /\ \E r \in TextReads :
        /\ event' = EvRead("gcc_text_read", r)
        /\ IF r # DriverFault /\ HasContent(r)
           THEN /\ clipboard_content' = r
                /\ contentSeen' = TRUE
                /\ TextContentStep(r)
           ELSE /\ Continue("gcc_poll", NextPoll(polls))
                /\ UNCHANGED <<clipboard_content, contentSeen>>
    /\ UNCHANGED <<normVars, imgVars, extVars, configVars, sessionVars, shortcutsSent,
                   emptyPolls, sendFaults, interacted, authResult, navResult,
                   toolOutcome>>

\* the text polling loop ran out of time: the final read of the attempt
GccTextFinalRead ==
    /\ pc = "gcc_poll"
    /\ polls >= 1
    /\ \E r \in TextReads :
        LET content == IF r = DriverFault THEN None ELSE r
        IN  /\ event' = EvRead("gcc_text_read", r)
            /\ clipboard_content' = content
            /\ IF HasContent(content)
               THEN /\ contentSeen' = TRUE
                    /\ TextContentStep(content)
               ELSE /\ contentSeen' = contentSeen
                    /\ Continue("gcc_alt", polls)
    /\ UNCHANGED <<normVars, imgVars, extVars, configVars, sessionVars, shortcutsSent,
                   emptyPolls, sendFaults, interacted, authResult, navResult,
                   toolOutcome>>

\* shortcuts of _try_alternative_shortcuts
AltShortcuts == <<"Ctrl+Alt+S", "Ctrl+S", "Alt+Shift+S">>

\* every shortcut is sent, whether or not an earlier one was sent
RECURSIVE _try_alternative_shortcuts_All(_, _, _)
_try_alternative_shortcuts_All(shortcuts, outs, i) ==
    IF i > Len(shortcuts)
    THEN [calls |-> <<>>, outs |-> <<>>, result |-> "False"]
    ELSE LET rest == _try_alternative_shortcuts_All(shortcuts, outs, i + 1)
         IN  [calls |-> <<shortcuts[i]>> \o rest.calls,
              outs |-> <<outs[i]>> \o rest.outs,
              result |-> IF outs[i] = "ok" THEN "True" ELSE rest.result]

\* _try_alternative_shortcuts: each shortcut is sent in a try block of its
\* own; the first that is sent without a WebDriverException gives True
\* (after time.sleep(2)), a WebDriverException goes on to the next
\* shortcut, another exception leaves the function; False after the last
RECURSIVE _try_alternative_shortcuts(_, _, _)
_try_alternative_shortcuts(shortcuts, outs, i) ==
    IF i > Len(shortcuts)
    THEN [calls |-> <<>>, outs |-> <<>>, result |-> "False"]
    ELSE IF outs[i] = "driver_fault"
    THEN LET rest == _try_alternative_shortcuts(shortcuts, outs, i + 1)
         IN  [rest EXCEPT !.calls = <<shortcuts[i]>> \o @, !.outs = <<outs[i]>> \o @]
    ELSE [calls |-> <<shortcuts[i]>>, outs |-> <<outs[i]>>,
          result |-> IF outs[i] = "ok" THEN "True" ELSE "raised"]

\* the ways _try_alternative_shortcuts can run
AltRuns ==
    { _try_alternative_shortcuts(AltShortcuts, outs, 1) :
        outs \in [DOMAIN AltShortcuts -> CallOutcomes] }

\* no text: _try_alternative_shortcuts, and when it gives True one more
\* read of the text clipboard
GccAlt ==
    /\ pc = "gcc_alt"
    /\ \E a \in AltRuns, r \in TextReads :
            /\ event' = [EvRead("gcc_alt_read", IF a.result = "True" THEN r ELSE None)
                            EXCEPT !.log = a]
            /\ sendFaults' = IF a.result = "raised" THEN sendFaults + 1 ELSE sendFaults
            /\ IF a.result = "raised"
               THEN /\ contentSeen' = contentSeen
                    /\ StrategyRaises("Exception", "shortcut")
               ELSE IF a.result = "True" /\ r # DriverFault /\ HasContent(r)
               THEN /\ contentSeen' = TRUE
                    /\ StrategyReturns(r)
               ELSE /\ contentSeen' = contentSeen
                    /\ GccNextAttempt
    /\ UNCHANGED <<normVars, imgVars, extVars, configVars, sessionVars,
                   clipboard_content, shortcutsSent, emptyPolls, interacted,
                   authResult, navResult, toolOutcome>>

----------------------------------------------------------------------------
(* The capture: the caller's code after the API call, and release          *)

\* the texts _trigger_screenshot_and_get_link can return
LinkTexts == { Strip(r.val) : r \in { t \in TextPayloads : HasContent(t) } }

\* convert_link_to_image_url on each of them
ConvertedLinks == [ t \in LinkTexts |-> convert_link_to_image_url(Some(t)) ]

\* image_url = scraper.convert_link_to_image_url(screenshot_link)
ToolConvert(screenshot_link) ==
    IF ~screenshot_link.none /\ screenshot_link.val \in LinkTexts
    THEN ConvertedLinks[screenshot_link.val]
    ELSE convert_link_to_image_url(screenshot_link)

\* the body of the with statement after the API call returned or raised:
\* the MCP tool checks the link and converts it
WithBody(caller, ao) ==
    IF caller # "mcp_tool" \/ ao.kind = "raised" THEN ao
    ELSE IF ~Truthy(ao.val)
    THEN Raised("TradingViewScraperError",
                "Scraper did not return a screenshot link from clipboard.")
    ELSE IF ~Truthy(ToolConvert(ao.val))
    THEN Raised("TradingViewScraperError",
                "Failed to convert screenshot link to image URL.")
    ELSE Returned(ToolConvert(ao.val))

\* the with body ends, with a value or with an exception
AfterApi ==
    /\ pc = "after_api"
    /\ toolOutcome' = WithBody(req.caller, apiOutcome)
    /\ pc' = "exit"
    /\ event' = Ev("after_api")
    /\ UNCHANGED <<normVars, imgVars, extVars, configVars, sessionVars, loopVars, interacted,
                   authResult, navResult, strategyOutcome, apiOutcome>>

QuitOutcomes == {"ok", "webdriver_error", "connection_error", "other_error"}

\* the handle is marked released without the browser being quit
close_NoQuit ==
    /\ driver' = "None"
    /\ UNCHANGED quitCalls

\* close(): driver.quit() when there is a driver; every exception of it is
\* swallowed, and a WebDriverException leaves self.driver set
close ==
    IF driver = "None" THEN UNCHANGED <<driver, quitCalls>>
    ELSE \E o \in QuitOutcomes :
            /\ quitCalls' = quitCalls + 1
            /\ driver' = IF o = "webdriver_error" THEN driver ELSE "None"

\* the with statement ends: __exit__ calls close(), then the caller's except
\* clauses see the exception, if there is one
Exit ==
    /\ pc = "exit"
    /\ close
    /\ toolOutcome' = CallerExcept(req.caller, toolOutcome)
    /\ pc' = "done"
    /\ event' = Ev("exit")
    /\ UNCHANGED <<normVars, imgVars, extVars, configVars, entered, driverStarts, loopVars,
                   interacted, authResult, navResult, strategyOutcome, apiOutcome>>

Next ==
    \/ Enter
    \/ Validate
    \/ Auth
    \/ Navigate
    \/ ClearClipboard
    \/ LinkSend
    \/ LinkPoll
    \/ LinkFinalRead
    \/ GccSend
    \/ GccImageRead
    \/ GccTextPoll
    \/ GccTextFinalRead
    \/ GccAlt
    \/ AfterApi
    \/ Exit

Spec == InitCapture /\ [][Next]_vars

\* the capture runs in one thread of control: as long as the driver calls
\* return, its next step is taken
SpecLive == Spec /\ WF_vars(Next)

----------------------------------------------------------------------------
(* Properties of the capture                                               *)

WellFormed == req.ticker # "" /\ req.interval # ""

Exhaustion ==
    Raised("TradingViewScraperError", "Failed to get clipboard content after multiple attempts")

\* C1: a request with non-empty ticker and interval that runs inside the with
\* block has its browser session quit exactly once, at the end of the block,
\* whichever phase failed or succeeded; driver.quit is never invoked twice.
C1_ReleasedExactlyOnce ==
    /\ quitCalls <= 1
    /\ (entered /\ WellFormed /\ pc = "done") => (quitCalls = 1 /\ driverStarts = 1)
    /\ (entered /\ WellFormed /\ pc # "done") => quitCalls = 0

\* a capture whose navigation failed, after its release
C1_Witness ==
    /\ pc = "done"
    /\ entered
    /\ WellFormed
    /\ navResult = "get_fault"
    /\ quitCalls = 1

\* C2: for a request with an empty ticker or an empty interval no browser
\* session is started, no browser interaction occurs, and the caller gets a
\* validation error.
C2_AsStated ==
    (req.ticker = "" \/ req.interval = "") =>
        /\ driverStarts = 0
        /\ ~interacted
        /\ pc = "done" =>
              /\ toolOutcome.kind = "raised"
              /\ (req.caller = "mcp_tool" => toolOutcome.msg = "Input Error")
              /\ (req.caller # "mcp_tool" => toolOutcome.exc = "ValueError")

C4_ExhaustsAfterMaxAttempts ==
    (strategyOutcome.kind # "pending" /\ ~contentSeen /\ sendFaults = 0) =>
        /\ attempt = MAX_CLIPBOARD_ATTEMPTS
        /\ shortcutsSent = MAX_CLIPBOARD_ATTEMPTS
        /\ (req.api = "get_screenshot_link" => strategyOutcome = Returned(None))
        /\ (req.api = "get_chart_image_url" => strategyOutcome = Exhaustion)

\* the link strategy has given up on an always-empty clipboard
C4_Witness ==
    /\ req.api = "get_screenshot_link"
    /\ strategyOutcome = Returned(None)
    /\ ~contentSeen
    /\ sendFaults = 0
    /\ shortcutsSent = MAX_CLIPBOARD_ATTEMPTS

\* C5: in the image strategy, when the first k < MAX_CLIPBOARD_ATTEMPTS reads
\* of the image clipboard are empty and the next one yields an image (and no
\* send of the shortcut fails), the strategy succeeds in attempt k+1, having
\* sent its shortcut k+1 times.
C5_SuccessAfterKPlusOne ==
    (/\ req.api = "get_chart_image_url"
     /\ use_save_shortcut
     /\ strategyOutcome.kind = "returned"
     /\ sendFaults = 0) =>
        /\ emptyPolls < MAX_CLIPBOARD_ATTEMPTS
        /\ attempt + 1 = emptyPolls + 1
        /\ shortcutsSent = emptyPolls + 1

\* the image strategy has succeeded in its third attempt
C5_Witness ==
    /\ req.api = "get_chart_image_url"
    /\ use_save_shortcut
    /\ strategyOutcome.kind = "returned"
    /\ sendFaults = 0
    /\ emptyPolls = 2
    /\ attempt = 2

\* the request runs the text path of _get_clipboard_content
TextPath == req.api = "get_chart_image_url" /\ ~use_save_shortcut

\* C6: in the text path of _get_clipboard_content the payload
\* {"success": false, "code": 50000, "msg": "Server Error"} is never returned
\* as the result of the capture: reading it makes the strategy retry.
C6_AsStated ==
    TextPath => strategyOutcome # Returned(Some(ServerErrorText))

\* C7: the payload {"success": false, "code": 40099, "msg": "Bad Input"} is
\* never returned as a successful result of the capture.
C7_AsStated ==
    TextPath => strategyOutcome # Returned(Some(BadInputText))

\* On the reads that are classified (the polling reads and the final read of
\* an attempt) the 50000 payload is not returned: the attempt ends and the
\* next one, if any remains, is made.
ClassifiedServerErrorRetries ==
    (TextPath /\ event = EvRead("gcc_text_read", Some(ServerErrorText))) =>
        /\ strategyOutcome.kind # "returned"
        /\ (strategyOutcome.kind = "pending" => pc = "gcc_send")
        /\ (strategyOutcome.kind = "raised" => attempt = MAX_CLIPBOARD_ATTEMPTS)

----------------------------------------------------------------------------
(* The share-link pattern as the specification words it:                   *)
(*   https://(www.|in.)?tradingview.com/x/<id>, <id> alphanumeric          *)

LinkPrefixes ==
    { HttpsLit \o WwwLit \o HostLit, HttpsLit \o InLit \o HostLit, HttpsLit \o HostLit }

\* a share link starts at position i of s
IsLinkStart(s, i) ==
    \E p \in LinkPrefixes :
        /\ HasPrefixAt(s, i, p)
        /\ i + Len(p) <= Len(s)
        /\ IsAlnum(s[i + Len(p)])

LinkStarts(s) == { i \in 1..Len(s) : IsLinkStart(s, i) }

\* the one share link of s: where it starts, where its id starts and ends
TheLink(s) ==
    LET i == CHOOSE i \in LinkStarts(s) : TRUE
        p == CHOOSE p \in LinkPrefixes : HasPrefixAt(s, i, p)
        idFrom == i + Len(p)
        idTo == CHOOSE j \in idFrom..Len(s) :
                    /\ \A k \in idFrom..j : IsAlnum(s[k])
                    /\ (j = Len(s) \/ ~IsAlnum(s[j + 1]))
    IN  [from |-> i, idFrom |-> idFrom, idTo |-> idTo]

\* https://s3.tradingview.com/snapshots/<lowercased first character of id>/<id>.png
SnapshotUrlOf(id) ==
    SnapshotPrefix \o <<Lower(id[1])>> \o <<"/">> \o id \o PngLit

HasOneLink(o) == ~o.none /\ Cardinality(LinkStarts(o.val)) = 1

\* C8 as stated: with exactly one share link in the input, the output is the
\* input with the link https://(www.|in.)?tradingview.com/x/<id> replaced by
\* the snapshot URL of <id>, every other character of the input kept.
C8_AsStated ==
    (normPc = "returned" /\ HasOneLink(normIn)) =>
        LET s == normIn.val
            l == TheLink(s)
        IN  normOut = Some(SubSeq(s, 1, l.from - 1)
                           \o SnapshotUrlOf(SubSeq(s, l.idFrom, l.idTo))
                           \o Tail_From(s, l.idTo + 1))

\* C8 (amended): with exactly one share link in the input, the output is the
\* input with the link, together with one "/" directly following its id when
\* there is one, replaced by the snapshot URL of <id>; the text before the
\* link and the text after it (after that "/") are kept unchanged.
C8_OneLinkReplaced ==
    (normPc = "returned" /\ HasOneLink(normIn)) =>
        LET s == normIn.val
            l == TheLink(s)
            slash == l.idTo + 1 <= Len(s) /\ s[l.idTo + 1] = "/"
            rest == IF slash THEN l.idTo + 2 ELSE l.idTo + 1
        IN  normOut = Some(SubSeq(s, 1, l.from - 1)
                           \o SnapshotUrlOf(SubSeq(s, l.idFrom, l.idTo))
                           \o Tail_From(s, rest))

\* a conversion of one link whose id starts with an upper-case letter, with
\* text before the link and text after it
C8_Witness ==
    /\ normPc = "returned"
    /\ HasOneLink(normIn)
    /\ LET s == normIn.val
           l == TheLink(s)
       IN  /\ l.from > 1
           /\ l.idTo < Len(s)
           /\ s[l.idTo + 1] = " "
           /\ s[l.idFrom] \in Range(UpperLetters)
           /\ Contains(normOut.val, SnapshotUrlOf(SubSeq(s, l.idFrom, l.idTo)))

\* C9 as stated: every string without a share link, the empty string
\* included, is returned unchanged.
C9_AsStated ==
    (normPc = "returned" /\ ~normIn.none /\ LinkStarts(normIn.val) = {}) =>
        normOut = normIn

\* C9 (amended): every non-empty string without a share link is returned
\* unchanged, also when it contains the host marker tradingview.com/x/.
C9_NoLinkUnchanged ==
    (normPc = "returned" /\ Truthy(normIn) /\ LinkStarts(normIn.val) = {}) =>
        normOut = normIn

\* a conversion of a string that holds the host marker and an id after it,
\* but no full share link
C9_Witness ==
    /\ normPc = "returned"
    /\ Truthy(normIn)
    /\ LinkStarts(normIn.val) = {}
    /\ Contains(normIn.val, HostLit \o IdA)
    /\ normOut = normIn


\* C10: for all image bytes b, _convert_clipboard_to_image_url(b) starts with
\* "data:image/png;base64," and the rest base64-decodes to exactly b.
C10_DataUrlRoundTrip ==
    imgPc = "returned" =>
        /\ StartsWith(imgOut, DataUrlPrefix)
        /\ b64decode(Tail_From(imgOut, Len(DataUrlPrefix) + 1))
               = [ok |-> TRUE, bytes |-> imgIn]

\* a conversion of bytes whose last base64 group is padded
C10_Witness ==
    /\ imgPc = "returned"
    /\ Len(imgIn) % 3 = 2
    /\ imgOut[Len(imgOut)] = "="
    /\ Len(imgOut) = Len(DataUrlPrefix) + 4 * ((Len(imgIn) + 2) \div 3)

----------------------------------------------------------------------------
(* Properties of the tool's output, the session and the waits              *)

\* C11: every string the MCP tool returns as a success starts with
\* https://s3.tradingview.com/snapshots/ or with data:image/.
C11_AsStated ==
    (req.caller = "mcp_tool" /\ pc = "done" /\ toolOutcome.kind = "returned") =>
        /\ Truthy(toolOutcome.val)
        /\ \/ StartsWith(toolOutcome.val.val, SnapshotPrefix)
           \/ StartsWith(toolOutcome.val.val, DataImageLit)

C14_AsStated ==
    event = Ev("exit") => driver = "None"

\* C16: no browser session stays unreleased: when the capture has ended, also
\* with a failure of __enter__ / _setup_driver, driver.quit() was invoked for
\* every browser that was started.
C16_AsStated ==
    pc = "done" => quitCalls >= driverStarts

\* C17: _set_auth_cookies_optimized never raises: it returns False without
\* touching the browser when the tokens are absent, returns False when a
\* step of the cookie injection fails, and the capture goes on to navigation.
C17_AsStated ==
    event.op = "auth" =>
        /\ pc = "navigate"
        /\ authResult \in {"True", "False"}
        /\ (~tokens => (authResult = "False" /\ ~interacted))

\* what the caller gets when the clipboard strategy of its request is
\* exhausted
ExhaustedResult ==
    CallerExcept(req.caller,
                 WithBody(req.caller,
                          IF req.api = "get_chart_image_url"
                          THEN ApiOnException(req.api, Exhaustion.exc, Exhaustion.msg)
                          ELSE Returned(None)))

\* C20: a failure handed to the caller keeps the kind of the underlying
\* error: the result of a navigation failure differs from the result of a
\* clipboard exhaustion, and the result of a failed session start differs
\* from both.
C20_AsStated ==
    /\ (pc = "done" /\ WellFormed /\ navResult \in {"get_fault", "wait_fault"})
           => toolOutcome # ExhaustedResult
    /\ (pc = "done" /\ WellFormed /\ ~entered)
           => /\ toolOutcome # ExhaustedResult
              /\ toolOutcome # CallerExcept(req.caller, NavFailure("get_fault"))

\* the result of an exhausted clipboard strategy is ExhaustedResult
ExhaustionGivesExhaustedResult ==
    (pc = "done" /\ ~contentSeen /\ sendFaults = 0 /\ attempt = MAX_CLIPBOARD_ATTEMPTS)
        => toolOutcome = ExhaustedResult

----------------------------------------------------------------------------
(* One scraper object, used through __enter__ and close()                  *)

\* calls made on the object
MaxCalls == 5

InitSession == CaptureIdle /\ NormIdle /\ ImgIdle /\ ExtIdle

\* __enter__: _setup_driver assigns self.driver when webdriver.Chrome has
\* created a browser, and leaves it as it was when it fails before that
SessEnter ==
    /\ pc = "idle"
    /\ Len(callLog) < MaxCalls
    /\ \E o \in SetupOutcomes :
        LET created == o \in {"ok", "config_error"}
        IN  /\ driver' = IF created THEN "live" ELSE driver
            /\ driverStarts' = IF created THEN driverStarts + 1 ELSE driverStarts
            /\ entered' = (o = "ok")
            /\ callLog' = Append(callLog, [op |-> "enter", started |-> created,
                                            quit |-> FALSE, outcome |-> o])
    /\ event' = Ev("enter")
    /\ UNCHANGED <<normVars, imgVars, configVars, quitCalls, loopVars, pc, interacted,
                   authResult, navResult, strategyOutcome, apiOutcome, toolOutcome,
                   taskPc, taskDriver, browsers, ppc, clock, wait_start, promptVars,
                   clipVars>>

\* close(), called by __exit__ or by the owner of the object
SessClose ==
    /\ pc = "idle"
    /\ Len(callLog) < MaxCalls
    /\ close
    /\ callLog' = Append(callLog, [op |-> "close", started |-> FALSE,
                                    quit |-> quitCalls' > quitCalls,
                                    outcome |-> driver'])
    /\ event' = Ev("close")
    /\ UNCHANGED <<normVars, imgVars, configVars, entered, driverStarts, loopVars, pc,
                   interacted, authResult, navResult, strategyOutcome, apiOutcome,
                   toolOutcome, taskPc, taskDriver, browsers, ppc, clock, wait_start,
                   promptVars, clipVars>>

\* get_screenshot_link or get_chart_image_url called on the scraper: without
\* a driver TradingViewScraperError is raised at once, without a ticker or an
\* interval ValueError; otherwise the method goes on to the cookies and the
\* navigation, which send commands to self.driver
SessCall ==
    /\ pc = "idle"
    /\ Len(callLog) < MaxCalls
    /\ \E api \in {"get_screenshot_link", "get_chart_image_url"}, t \in Tickers, i \in Intervals :
        LET outcome == IF driver = "None" THEN "TradingViewScraperError"
                       ELSE IF t = "" \/ i = "" THEN "ValueError"
                       ELSE "driver_used"
        IN  /\ callLog' = Append(callLog, [op |-> api, started |-> FALSE,
                                            quit |-> FALSE, outcome |-> outcome])
            /\ interacted' = (interacted \/ outcome = "driver_used")
    /\ event' = Ev("validate")
    /\ UNCHANGED <<normVars, imgVars, configVars, sessionVars, loopVars, pc,
                   authResult, navResult, strategyOutcome, apiOutcome, toolOutcome,
                   taskPc, taskDriver, browsers, ppc, clock, wait_start, promptVars,
                   clipVars>>

NextSession == SessEnter \/ SessClose \/ SessCall

SpecSession == InitSession /\ [][NextSession]_vars

\* calls i and j of the log are close() calls on the same session: no browser
\* was started between them
SameSessionCloses(i, j) ==
    /\ i < j
    /\ callLog[i].op = "close"
    /\ callLog[j].op = "close"
    /\ \A k \in (i + 1)..(j - 1) : ~callLog[k].started

\* C15: close() is idempotent: a close() after a close() on the same session
\* does nothing, so driver.quit() is invoked at most once per session.
C15_AsStated ==
    \A i, j \in DOMAIN callLog : SameSessionCloses(i, j) => ~callLog[j].quit

----------------------------------------------------------------------------
(* Concurrent invocations of the MCP tool.  Every step of an invocation    *)
(* may interleave with the steps of the others; the event loop of the      *)
(* server allows only a part of these interleavings (it switches at the    *)
(* awaits).                                                                *)

InitConc ==
    /\ CaptureIdle
    /\ NormIdle
    /\ ImgIdle
    /\ callLog = <<>>
    /\ taskPc = [t \in Tasks |-> "called"]
    /\ taskDriver = [t \in Tasks |-> 0]
    /\ browsers = <<>>
    /\ ppc = "idle"
    /\ clock = 0
    /\ wait_start = 0
    /\ PromptIdle
    /\ ClipIdle

ConcRest ==
    <<normVars, imgVars, captureVars, callLog, ppc, clock, wait_start, promptVars, clipVars>>

\* every invocation drives the browser that was started last
DriverOf_Global(t) == Len(browsers)

\* scraper is a local of the invocation ("with TradingViewScraper(...) as
\* scraper"), and its methods act on self.driver
DriverOf(t) == taskDriver[t]

\* a command (navigation, cookie, script, keys, quit) of invocation t
SendCommand(t, bs) ==
    [bs EXCEPT ![DriverOf(t)].users = @ \cup {t}]

\* await ctx.info(...) before the with statement
TaskInfo(t) ==
    /\ taskPc[t] = "called"
    /\ taskPc' = [taskPc EXCEPT ![t] = "enter"]
    /\ UNCHANGED <<ConcRest, taskDriver, browsers>>

\* with TradingViewScraper(...): a new object, whose __enter__ starts a new
\* browser with webdriver.Chrome(...)
TaskEnter(t) ==
    /\ taskPc[t] = "enter"
    /\ \E o \in SetupOutcomes :
        LET created == o \in {"ok", "config_error"}
        IN  /\ browsers' = IF created
                            THEN Append(browsers, [owner |-> t, users |-> {}, live |-> TRUE])
                            ELSE browsers
            /\ taskDriver' = [taskDriver EXCEPT ![t] = IF created THEN Len(browsers) + 1 ELSE 0]
            /\ taskPc' = [taskPc EXCEPT ![t] = IF o = "ok" THEN "auth" ELSE "report"]
    /\ UNCHANGED ConcRest

\* one phase of get_screenshot_link: its driver calls, then the next phase
\* or a failure that ends the with body
TaskPhase(t, from, to) ==
    /\ taskPc[t] = from
    /\ browsers' = SendCommand(t, browsers)
    /\ \E ok \in BOOLEAN : taskPc' = [taskPc EXCEPT ![t] = IF ok THEN to ELSE "exit"]
    /\ UNCHANGED <<ConcRest, taskDriver>>

TaskAuth(t) == TaskPhase(t, "auth", "navigate")

TaskNavigate(t) == TaskPhase(t, "navigate", "shortcut")

TaskShortcut(t) == TaskPhase(t, "shortcut", "info")

\* await ctx.info(...) inside the with statement, after the capture
TaskAwait(t) ==
    /\ taskPc[t] = "info"
    /\ taskPc' = [taskPc EXCEPT ![t] = "exit"]
    /\ UNCHANGED <<ConcRest, taskDriver, browsers>>

\* __exit__: close() quits self.driver
TaskExit(t) ==
    /\ taskPc[t] = "exit"
    /\ \E o \in QuitOutcomes :
        /\ browsers' = [SendCommand(t, browsers) EXCEPT ![DriverOf(t)].live = (o # "ok")]
        /\ taskDriver' = [taskDriver EXCEPT ![t] = IF o = "webdriver_error" THEN @ ELSE 0]
    /\ taskPc' = [taskPc EXCEPT ![t] = "report"]
    /\ UNCHANGED ConcRest

\* the except clauses and the return: await ctx.error(...), raise / return
TaskReport(t) ==
    /\ taskPc[t] = "report"
    /\ taskPc' = [taskPc EXCEPT ![t] = "done"]
    /\ UNCHANGED <<ConcRest, taskDriver, browsers>>

NextConc ==
    \E t \in Tasks :
        \/ TaskInfo(t)
        \/ TaskEnter(t)
        \/ TaskAuth(t)
        \/ TaskNavigate(t)
        \/ TaskShortcut(t)
        \/ TaskAwait(t)
        \/ TaskExit(t)
        \/ TaskReport(t)

SpecConc == InitConc /\ [][NextConc]_vars

\* C12: concurrent requests hold sessions of their own: no two requests hold
\* the same driver, and every command sent to a browser (navigation,
\* cookies, shortcut, quit) comes from the request that started it.
C12_ExclusiveSessions ==
    /\ \A t, u \in Tasks :
          (t # u /\ taskDriver[t] # 0) => taskDriver[t] # taskDriver[u]
    /\ \A b \in DOMAIN browsers :
          /\ Cardinality(browsers[b].users) <= 1
          /\ browsers[b].users \subseteq {browsers[b].owner}

\* two requests in flight at once, each having sent commands to its own live
\* browser
C12_Witness ==
    \E t, u \in Tasks :
        /\ t # u
        /\ taskPc[t] \in {"navigate", "shortcut"}
        /\ taskPc[u] \in {"navigate", "shortcut"}
        /\ browsers[taskDriver[t]].live /\ browsers[taskDriver[u]].live
        /\ browsers[taskDriver[t]].users = {t}
        /\ browsers[taskDriver[u]].users = {u}

-----------------------------------------------------------------------------
(* The readiness prober of _navigate_and_wait, with its clock.  Time is    *)
(* counted in ticks of one poll sleep, time.sleep(0.1); a DOM query takes  *)
(* no time, which is the least the browser can take.                       *)

TicksPerSecond == 10

MAX_CHART_WAIT_TIME == 6

\* time.sleep(0.1) of the element poll and of both gates
PollSleep == TicksPerSecond \div 10

\* WebDriverWait's default poll_frequency, 0.5 s
WaitPollSleep == TicksPerSecond \div 2

\* time.sleep(0.5) of the fallback
FallbackSleep == TicksPerSecond \div 2

max_element_wait == 2 * TicksPerSecond

max_loading_check == (3 * TicksPerSecond) \div 2

max_data_wait == 2 * TicksPerSecond

\* WebDriverWait(self.driver, self.MAX_CHART_WAIT_TIME)
WaitTimeout == MAX_CHART_WAIT_TIME * TicksPerSecond

ProbeRest == <<normVars, imgVars, configVars, sessionVars, loopVars, pc, interacted,
               authResult, strategyOutcome, apiOutcome, toolOutcome,
               callLog, taskPc, taskDriver, browsers, promptVars, clipVars>>

\* A scraper with a live driver about to call _navigate_and_wait.
InitProbe ==
    /\ NormIdle /\ ImgIdle
    /\ req = [caller |-> "library", api |-> "get_screenshot_link", ticker |-> "", interval |-> ""]
    /\ tokens = FALSE
    /\ use_save_shortcut \in BOOLEAN
    /\ driver = "live"
    /\ pc = "navigate"
    /\ entered = TRUE
    /\ driverStarts = 1
    /\ quitCalls = 0
    /\ interacted = FALSE
    /\ authResult = "False"
    /\ navResult = "unset"
    /\ attempt = 0
    /\ polls = 0
    /\ clipboard_content = None
    /\ shortcutsSent = 0
    /\ emptyPolls = 0
    /\ contentSeen = FALSE
    /\ sendFaults = 0
    /\ strategyOutcome = NoOutcome
    /\ apiOutcome = NoOutcome
    /\ toolOutcome = NoOutcome
    /\ event = Ev("auth")
    /\ callLog = <<>>
    /\ taskPc = [t \in Tasks |-> "idle"]
    /\ taskDriver = [t \in Tasks |-> 0]
    /\ browsers = <<>>
    /\ ppc = "get"
    /\ clock = 0
    /\ wait_start = 0
    /\ PromptIdle
    /\ ClipIdle

\* self.driver.get(url), then start_time = time.time().  A WebDriverException
\* is turned into TradingViewScraperError by the outer except clause; any
\* other exception leaves the method as it is.
ProbeGet ==
    /\ ppc = "get"
    /\ \E o \in {"ok", "webdriver_error", "other_error"} :
          /\ ppc' = IF o = "ok" THEN "infra" ELSE "raised"
          /\ navResult' = CASE o = "ok" -> navResult
                            [] o = "webdriver_error" -> "get_fault"
                            [] OTHER -> "other_fault"
    /\ clock' = 0
    /\ wait_start' = 0
    /\ event' = Ev("probe_get")
    /\ UNCHANGED ProbeRest

\* One poll of self.wait.until(EC.any_of(...)).  found: one of the four
\* locators matched.  not_found: none did (any_of swallows the
\* WebDriverException of a locator); until() sleeps one poll interval and
\* raises TimeoutException once the clock is past the timeout, which the
\* inner except clause turns into the fallback.  error: the query raised
\* something that is no WebDriverException (the connection to the driver
\* process failed); neither except clause of the method catches it.
ProbeInfra ==
    /\ ppc = "infra"
    /\ \E q \in {"found", "not_found", "error"} :
          CASE q = "found" ->
                  /\ ppc' = "elements"
                  /\ clock' = clock
                  /\ wait_start' = clock
                  /\ navResult' = navResult
            [] q = "not_found" ->
                  /\ clock' = clock + WaitPollSleep
                  /\ ppc' = IF clock' > WaitTimeout THEN "fallback" ELSE "infra"
                  /\ wait_start' = wait_start
                  /\ navResult' = navResult
            [] OTHER ->
                  /\ ppc' = "raised"
                  /\ navResult' = "other_fault"
                  /\ UNCHANGED <<clock, wait_start>>
    /\ event' = Ev("probe_infra")
    /\ UNCHANGED ProbeRest

\* One pass of a poll loop that started at wait_start and gives up after
\* limit: a pass that does not break sleeps, then the loop test is taken.
PollPass(breaks, limit, next) ==
    IF breaks
    THEN /\ ppc' = next
         /\ clock' = clock
         /\ wait_start' = clock
    ELSE /\ clock' = clock + PollSleep
         /\ IF clock' - wait_start < limit
            THEN /\ ppc' = ppc
                 /\ wait_start' = wait_start
            ELSE /\ ppc' = next
                 /\ wait_start' = clock'

\* The element poll: canvas or chart widget, and a price element.  A query
\* error is swallowed by except Exception: pass.
ProbeElements ==
    /\ ppc = "elements"
    /\ \E q \in {"ready", "not_ready", "error"} :
          PollPass(q = "ready", max_element_wait, "gate")
    /\ navResult' = navResult
    /\ event' = Ev("probe_elements")
    /\ UNCHANGED ProbeRest

GateLimit == IF use_save_shortcut THEN max_loading_check ELSE max_data_wait

\* The strategy-specific gate: with use_save_shortcut the loop ends when no
\* loading indicator is shown, otherwise when price and canvas are there and
\* no indicator is.  Leaving the gate is the prober's normal end.
ProbeGate ==
    /\ ppc = "gate"
    /\ \E q \in {"ready", "not_ready", "error"} :
          PollPass(q = "ready", GateLimit, "terminal")
    /\ navResult' = IF ppc' = "terminal" THEN "ready" ELSE navResult
    /\ event' = Ev("probe_gate")
    /\ UNCHANGED ProbeRest

\* the timeout of the infrastructure wait is passed on to the caller
ProbeFallback_Raises ==
    /\ ppc = "fallback"
    /\ ppc' = "raised"
    /\ clock' = clock
    /\ wait_start' = wait_start
    /\ navResult' = "wait_fault"
    /\ event' = Ev("probe_fallback")
    /\ UNCHANGED ProbeRest

\* except TimeoutException: time.sleep(0.5), then the method returns.
ProbeFallback ==
    /\ ppc = "fallback"
    /\ ppc' = "terminal"
    /\ clock' = clock + FallbackSleep
    /\ wait_start' = wait_start
    /\ navResult' = "fallback"
    /\ event' = Ev("probe_fallback")
    /\ UNCHANGED ProbeRest

\* _navigate_and_wait has ended: get_screenshot_link goes on to its
\* strategy, or its except clauses get the exception
ProbeReturn ==
    /\ ppc \in {"terminal", "raised"}
    /\ pc = "navigate"
    /\ IF ppc = "terminal"
       THEN /\ pc' = IF req.api = "get_chart_image_url" THEN "clear" ELSE "link_send"
            /\ apiOutcome' = apiOutcome
       ELSE /\ pc' = "after_api"
            /\ apiOutcome' = ApiOnException(req.api, NavFailure(navResult).exc,
                                            NavFailure(navResult).msg)
    /\ UNCHANGED <<normVars, imgVars, extVars, configVars, sessionVars, loopVars, interacted,
                   authResult, navResult, strategyOutcome, toolOutcome, event>>

NextProbe ==
    ProbeGet \/ ProbeInfra \/ ProbeElements \/ ProbeGate \/ ProbeFallback \/ ProbeReturn

SpecProbe == InitProbe /\ [][NextProbe]_vars

\* _navigate_and_wait runs in one thread: its next step is taken as long as
\* the driver calls and the sleeps return
SpecProbeLive == SpecProbe /\ WF_vars(NextProbe)

\* The prober ends with one of the outcomes the capture machine gives
\* _navigate_and_wait.
ProbeRefinesNavigate ==
    ppc \in {"terminal", "raised"} => navResult \in NavOutcomes

\* The waits add up: the clock never passes the sum of the four limits.
ProbeWaitBounded ==
    clock <= WaitTimeout + WaitPollSleep + max_element_wait + max_data_wait

\* C18: once driver.get has succeeded the prober never raises, whatever the
\* DOM queries of the infrastructure wait, the element poll and the gate do.
C18_AsStated == ppc = "raised" => event = Ev("probe_get")

\* C19: the prober's total time after one navigation never exceeds
\* MAX_CHART_WAIT_TIME.
C19_AsStated == ppc = "terminal" => clock <= MAX_CHART_WAIT_TIME * TicksPerSecond

-----------------------------------------------------------------------------
(* The prompt get_chart_prompt_timeframe of main.py                        *)

\* interval_map: the pairs of the dict literal
interval_map ==
    {  <<<<"d","a","i","l","y">>, <<"D">>>>,
       <<<<"w","e","e","k","l","y">>, <<"W">>>>,
       <<<<"m","o","n","t","h","l","y">>, <<"M">>>>,
       <<<<"1"," ","m","i","n","u","t","e">>, <<"1">>>>,
       <<<<"5"," ","m","i","n","u","t","e">>, <<"5">>>>,
       <<<<"1","5"," ","m","i","n","u","t","e">>, <<"1","5">>>>,
       <<<<"1"," ","h","o","u","r">>, <<"6","0">>>>,
       <<<<"4"," ","h","o","u","r">>, <<"2","4","0">>>> }

\* str.lower() on a string
str_lower(s) == [i \in 1..Len(s) |-> Lower(s[i])]

get_chart_prompt_timeframe_NoLower(s) ==
    IF \E e \in interval_map : e[1] = s
    THEN (CHOOSE e \in interval_map : e[1] = s)[2]
    ELSE s

\* mcp_interval = interval_map.get(interval.lower(), interval)
get_chart_prompt_timeframe(s) ==
    IF \E e \in interval_map : e[1] = str_lower(s)
    THEN (CHOOSE e \in interval_map : e[1] = str_lower(s))[2]
    ELSE s

\* the raw interval codes of the tool
RawCodes == { <<"1">>, <<"5">>, <<"1","5">>, <<"3","0">>, <<"6","0">>, <<"2","4","0">>, <<"D">>, <<"W">>, <<"M">> }

MaxCased == 4

Upper(c) ==
    IF c \in Range(LowerLetters)
    THEN UpperLetters[CHOOSE i \in DOMAIN LowerLetters : LowerLetters[i] = c]
    ELSE c

\* a name with some of its first MaxCased characters in upper case
CaseVariants(s) ==
    { [i \in 1..Len(s) |-> IF i \in m THEN Upper(s[i]) ELSE s[i]] :
        m \in SUBSET (1..(IF Len(s) < MaxCased THEN Len(s) ELSE MaxCased)) }

PromptInputs ==
    UNION { CaseVariants(e[1]) : e \in interval_map }
    \cup RawCodes
    \cup { <<>>, <<"d">>, <<"1","h">>, <<"4","H">>, <<"d","a","i","l","y"," ">>,
           <<"h","o","u","r","l","y">> }

InitPrompt ==
    /\ NormIdle /\ ImgIdle /\ CaptureIdle
    /\ callLog = <<>>
    /\ taskPc = [t \in Tasks |-> "idle"]
    /\ taskDriver = [t \in Tasks |-> 0]
    /\ browsers = <<>>
    /\ ppc = "idle"
    /\ clock = 0
    /\ wait_start = 0
    /\ interval \in PromptInputs
    /\ mcp_interval = <<>>
    /\ promptPc = "called"
    /\ ClipIdle

\* the prompt up to its call of get_tradingview_chart_image(ticker, mcp_interval, ctx)
PromptTimeframe ==
    /\ promptPc = "called"
    /\ mcp_interval' = get_chart_prompt_timeframe(interval)
    /\ promptPc' = "tool_called"
    /\ UNCHANGED <<normVars, imgVars, captureVars, callLog, taskPc, taskDriver, browsers,
                   ppc, clock, wait_start, interval, clipVars>>

NextPrompt == PromptTimeframe

SpecPrompt == InitPrompt /\ [][NextPrompt]_vars

\* C21: the prompt passes the raw code of every symbolic name it knows,
\* whatever the case of its letters, and every other string as it is.
C21_PromptMapsNames ==
    promptPc = "tool_called" =>
        /\ \A e \in interval_map : interval \in CaseVariants(e[1]) => mcp_interval = e[2]
        /\ (\A e \in interval_map : interval \notin CaseVariants(e[1])) => mcp_interval = interval
        /\ interval \in RawCodes => mcp_interval = interval

C21_Witness ==
    /\ promptPc = "tool_called"
    /\ interval = <<"W","e","E","k","l","y">>
    /\ mcp_interval = <<"W">>

-----------------------------------------------------------------------------
(* Order of the phases of one capture                                      *)

StrategyOps ==
    {"link_send", "link_read", "gcc_send", "gcc_image_read", "gcc_text_read", "gcc_alt_read"}

\* the phase an operation belongs to: 1 session acquired, 3 auth injection,
\* 4 navigation with the readiness prober, 6 capture strategy, 7 the with
\* body after the API call (normalization), 8 release
PhaseOf(op) ==
    CASE op = "init" -> 0
      [] op = "enter" -> 1
      [] op = "validate" -> 2
      [] op = "auth" -> 3
      [] op = "navigate" -> 4
      [] op = "clear_clipboard" -> 5
      [] op \in StrategyOps -> 6
      [] op = "after_api" -> 7
      [] op = "exit" -> 8

PhaseStep ==
    /\ event.op # "exit"
    /\ PhaseOf(event'.op) >= PhaseOf(event.op)
    /\ PhaseOf(event'.op) = PhaseOf(event.op) => event'.op \in StrategyOps
    /\ event'.op = "navigate" => authResult # "unset"
    /\ event'.op \in StrategyOps => navResult \in {"ready", "fallback"}
    /\ event'.op = "after_api" /\ strategyOutcome # NoOutcome => shortcutsSent + sendFaults >= 1

\* C22: the phases of one capture come in the order session, auth injection,
\* navigation and readiness, capture strategy, normalization, release; no
\* shortcut is sent before the readiness prober has ended, and nothing
\* follows the release.
C22_PhaseOrder == [][PhaseStep]_vars

C22_Witness ==
    /\ pc = "done"
    /\ event = Ev("exit")
    /\ req.caller = "mcp_tool"
    /\ authResult = "True"
    /\ navResult = "ready"
    /\ shortcutsSent >= 1
    /\ toolOutcome.kind = "returned"

-----------------------------------------------------------------------------
(* Order of the driver calls inside the auth injection and the shortcuts   *)

\* C23: with the tokens present _set_auth_cookies_optimized loads the chart
\* URL, adds the sessionid cookie, adds the sessionid_sign cookie and reloads,
\* in this order; a cookie is added only after driver.get has returned, and
\* True is returned only after the reload has.
C23_AuthOrder ==
    (event.op = "auth" /\ tokens) =>
        LET c == event.log.calls
            o == event.log.outs
        IN  /\ c # <<>>
            /\ c = SubSeq(<<"get", "add_cookie sessionid", "add_cookie sessionid_sign",
                            "refresh">>, 1, Len(c))
            /\ \A i \in DOMAIN c :
                  c[i] \in {"add_cookie sessionid", "add_cookie sessionid_sign"} =>
                      \E j \in 1..(i - 1) : c[j] = "get" /\ o[j] = "ok"
            /\ \A i \in DOMAIN c : i < Len(c) => o[i] = "ok"
            /\ event.log.result = "True" =>
                  Len(c) = 4 /\ c[4] = "refresh" /\ o[4] = "ok"
            /\ authResult = "True" <=> event.log.result = "True"

C23_Witness ==
    /\ event.op = "auth"
    /\ tokens
    /\ authResult = "True"
    /\ event.log.calls = <<"get", "add_cookie sessionid", "add_cookie sessionid_sign", "refresh">>

-----------------------------------------------------------------------------
(* The readiness gate and the strategy that follows it                     *)

\* the gate _navigate_and_wait applies after the element poll: with
\* use_save_shortcut only "no loading indicator", otherwise price element,
\* canvas and no loading indicator together
GateKind == IF use_save_shortcut THEN "no_spinner" ELSE "combined"

C25_TimeoutFallsBack ==
    /\ [][(ppc = "infra" /\ clock' > WaitTimeout) => ppc' = "fallback"]_vars
    /\ (ppc = "fallback") ~> (ppc = "terminal" /\ navResult = "fallback" /\ pc = "link_send")

C25_Witness ==
    /\ ppc = "terminal"
    /\ navResult = "fallback"
    /\ pc = "link_send"
    /\ apiOutcome = NoOutcome
    /\ clock = WaitTimeout + WaitPollSleep + FallbackSleep

-----------------------------------------------------------------------------
(* Errors and retries inside the two strategies                            *)

\* C26: in the link strategy a WebDriver-level error during an attempt ends
\* the retry loop at once: after it no further shortcut is sent.
C26_AsStated ==
    [][(event.op = "link_read" /\ event.read = DriverFault) => event'.op # "link_send"]_vars

\* C27: an attempt of the image strategy that reads image data ends the
\* strategy at once with the data URL of those bytes; no shortcut is sent
\* and no clipboard read or retry is made after it.
C27_ImageReturnedAtOnce ==
    [][/\ (pc = "gcc_image" /\ Truthy(ImageBytesOf(event'.read))) =>
            /\ pc' = "after_api"
            /\ strategyOutcome'.kind = "returned"
            /\ StartsWith(strategyOutcome'.val.val, DataUrlPrefix)
            /\ b64decode(Tail_From(strategyOutcome'.val.val, Len(DataUrlPrefix) + 1))
                   = [ok |-> TRUE, bytes |-> ImageBytesOf(event'.read).val]
            /\ UNCHANGED <<shortcutsSent, attempt, emptyPolls>>
       /\ strategyOutcome # NoOutcome =>
            /\ event'.op \notin StrategyOps
            /\ UNCHANGED <<shortcutsSent, attempt, emptyPolls, strategyOutcome>>
      ]_vars

C27_Witness ==
    /\ event.op = "gcc_image_read"
    /\ ImageBytesOf(event.read) = Some(<<137, 80, 78>>)
    /\ emptyPolls = 1
    /\ shortcutsSent = 2
    /\ pc = "after_api"
    /\ strategyOutcome = Returned(Some(DataUrlPrefix \o <<"i","V","B","O">>))

\* C28: with use_save_shortcut, an attempt that got nothing from the
\* clipboard is not given up before the alternative shortcuts were tried and
\* the clipboard was read again.
C28_AsStated ==
    [][(use_save_shortcut /\ pc = "gcc_image" /\ ~Truthy(ImageBytesOf(event'.read))) =>
            (attempt' = attempt /\ pc' # "after_api")]_vars

\* C29: _try_alternative_shortcuts sends Ctrl+Alt+S, Ctrl+S, Alt+Shift+S in
\* this order, each at most once, and stops at the first that is sent
\* without a WebDriver error; a later one is sent only when every earlier
\* one failed, and False is returned only when all three failed.
C29_AltShortcutOrder ==
    event.op = "gcc_alt_read" =>
        LET c == event.log.calls
            o == event.log.outs
        IN  /\ c # <<>>
            /\ c = SubSeq(<<"Ctrl+Alt+S", "Ctrl+S", "Alt+Shift+S">>, 1, Len(c))
            /\ \A i \in DOMAIN c : i < Len(c) => o[i] = "driver_fault"
            /\ event.log.result = "True" <=> o[Len(c)] = "ok"
            /\ event.log.result = "False" <=>
                  (Len(c) = 3 /\ \A i \in DOMAIN c : o[i] = "driver_fault")
            /\ event.log.result # "True" => event.read = None

C29_Witness ==
    /\ event.op = "gcc_alt_read"
    /\ event.log.calls = <<"Ctrl+Alt+S", "Ctrl+S">>
    /\ event.log.outs = <<"driver_fault", "ok">>
    /\ event.log.result = "True"
    /\ HasContent(event.read)

\* C30: TradingViewClipboardServerError never leaves _get_clipboard_content:
\* a read classified as a retryable server error ends the attempt, and after
\* the last attempt the strategy ends with the exhaustion error.
C30_ServerErrorConsumed ==
    /\ \A o \in {strategyOutcome, apiOutcome, toolOutcome} :
          o.exc # "TradingViewClipboardServerError"
    /\ (/\ TextPath
        /\ event.op = "gcc_text_read"
        /\ HasContent(event.read)
        /\ IsRetryableServerError(event.read.val)) =>
          IF attempt < MAX_CLIPBOARD_ATTEMPTS
          THEN strategyOutcome = NoOutcome /\ pc = "gcc_send"
          ELSE strategyOutcome = Exhaustion /\ pc = "after_api"

C30_Witness ==
    /\ TextPath
    /\ event.op = "gcc_text_read"
    /\ HasContent(event.read)
    /\ IsRetryableServerError(event.read.val)
    /\ attempt = MAX_CLIPBOARD_ATTEMPTS
    /\ shortcutsSent = MAX_CLIPBOARD_ATTEMPTS
    /\ strategyOutcome = Exhaustion
    /\ pc = "after_api"

----------------------------------------------------------------------------
(* The classification of a structured error payload                        *)

\* a clipboard text that is a JSON object with success false, a code and a msg
IsErrorPayload(o) ==
    /\ HasContent(o)
    /\ LET response == json_loads(o.val)
       IN  response.ok /\ response.isDict /\ response.hasCode /\ response.hasMsg
           /\ response.success = "false"

\* C31: the retry / no-retry classification of a structured error payload
\* depends on its code only: when a classified read of the text path gives
\* such a payload, the attempt is ended for a retry exactly when every
\* payload with the same code is classified as retryable, whatever the
\* message
C31_AsStated ==
    \A q \in TextPayloads :
        (/\ event.op = "gcc_text_read"
         /\ IsErrorPayload(event.read)
         /\ IsErrorPayload(q)
         /\ json_loads(q.val).code = json_loads(event.read.val).code)
        => (strategyOutcome # Returned(event.read) <=> IsRetryableServerError(q.val))

----------------------------------------------------------------------------
(* A driver fault of the navigation                                        *)

\* the request ended without a result: an exception, or None
Failed(out) == out.kind = "raised" \/ (out.kind = "returned" /\ out.val = None)

\* C32: a driver fault in _navigate_and_wait is terminal and is not retried:
\* after it the navigation is not run again, no capture shortcut is sent, no
\* clipboard read is made, the strategy is never entered, and the request
\* ends in failure (get_screenshot_link raises the TradingViewScraperError
\* of the navigation)
C32_NavigationFaultTerminal ==
    navResult \in {"get_fault", "wait_fault"} =>
        /\ pc \in {"after_api", "exit", "done"}
        /\ event.op \in {"navigate", "after_api", "exit"}
        /\ shortcutsSent = 0
        /\ sendFaults = 0
        /\ ~contentSeen
        /\ clipboard_content = None
        /\ strategyOutcome = NoOutcome
        /\ Failed(apiOutcome)
        /\ req.api = "get_screenshot_link" =>
              apiOutcome = Raised("TradingViewScraperError", "Navigation failed")
        /\ pc \in {"exit", "done"} => Failed(toolOutcome)

C32_Witness ==
    /\ navResult = "get_fault"
    /\ req.api = "get_screenshot_link"
    /\ pc = "done"
    /\ toolOutcome.kind = "raised"
    /\ shortcutsSent = 0

----------------------------------------------------------------------------
(* Several share links in one input                                        *)

\* s with each of the matches replaced, where it stands, by the snapshot URL
\* of its own id, the text between the matches kept
RECURSIVE SpliceFrom(_, _, _, _)
SpliceFrom(s, matches, k, pos) ==
    IF k > Len(matches) THEN Tail_From(s, pos)
    ELSE LET m == matches[k]
         IN  SubSeq(s, pos, m.from - 1)
             \o SnapshotUrlOf(SubSeq(s, m.idFrom, m.idTo))
             \o SpliceFrom(s, matches, k + 1, m.stop)

\* C33: for an input with several share links, the output is the input with
\* every match of the pattern replaced in place by the snapshot URL of that
\* match's own id, all text around the matches kept
C33_AsStated ==
    (normPc = "returned" /\ Truthy(normIn) /\ Len(FindIter(normIn.val)) >= 2) =>
        normOut = Some(SpliceFrom(normIn.val, FindIter(normIn.val), 1, 1))

\* what holds: when no matched link is a proper prefix of another matched
\* link, every match is replaced in place by the snapshot URL of its own id
NoLinkPrefixesAnother(s) ==
    LET ms == FindIter(s)
        url(k) == SubSeq(s, ms[k].from, ms[k].stop - 1)
    IN  \A j, k \in DOMAIN ms :
            url(j) # url(k) => ~Contains(url(k), url(j))

SeveralLinksReplaced ==
    (/\ normPc = "returned"
     /\ Truthy(normIn)
     /\ Len(FindIter(normIn.val)) >= 2
     /\ NoLinkPrefixesAnother(normIn.val)) =>
        normOut = Some(SpliceFrom(normIn.val, FindIter(normIn.val), 1, 1))

----------------------------------------------------------------------------
(* The conversion applied to its own output                                *)

\* C38: convert_link_to_image_url is idempotent on every non-empty input:
\* applied to its own output it returns that output unchanged
C38_Idempotent ==
    (normPc = "returned" /\ Truthy(normIn)) =>
        convert_link_to_image_url(normOut) = normOut

\* a conversion that replaced two share links, applied again to its output
C38_Witness ==
    /\ normPc = "returned"
    /\ Truthy(normIn)
    /\ Len(FindIter(normIn.val)) >= 2
    /\ normOut # normIn
    /\ Contains(normOut.val, SnapshotPrefix)
    /\ convert_link_to_image_url(normOut) = normOut

----------------------------------------------------------------------------
(* A result of an unexpected shape                                         *)

----------------------------------------------------------------------------
(* get_screenshot_link and the clipboard it reads: calls made one after    *)
(* the other on one scraper                                                *)

\* calls of get_screenshot_link on the scraper
MaxClipCalls == 2

\* the id of the snapshot made for the shortcut of call k
SnapId(k) == <<"Q", Digits[k + 1]>>

\* what the page copies to the clipboard for the shortcut of call k
ShareLinkOf(k) == HttpsLit \o WwwLit \o HostLit \o SnapId(k) \o <<"/">>

\* what the clipboard may hold before the first call: nothing, or the link
\* of a capture made earlier
ClipboardsBefore == { <<>>, ShareLinkOf(0) }

ClipRest ==
    <<normVars, imgVars, configVars, sessionVars, emptyPolls, contentSeen, sendFaults,
      interacted, authResult, navResult, strategyOutcome, toolOutcome, callLog, taskPc,
      taskDriver, browsers, ppc, clock, wait_start, promptVars>>

\* a scraper with a live driver, used directly by a program
InitClip ==
    /\ NormIdle /\ ImgIdle
    /\ req = [caller |-> "library", api |-> "get_screenshot_link",
              ticker |-> "NASDAQ:AAPL", interval |-> "D"]
    /\ tokens = FALSE
    /\ use_save_shortcut = TRUE
    /\ driver = "live"
    /\ pc = "idle"
    /\ entered = TRUE
    /\ driverStarts = 1
    /\ quitCalls = 0
    /\ interacted = FALSE
    /\ authResult = "unset"
    /\ navResult = "unset"
    /\ attempt = 0
    /\ polls = 0
    /\ clipboard_content = None
    /\ shortcutsSent = 0
    /\ emptyPolls = 0
    /\ contentSeen = FALSE
    /\ sendFaults = 0
    /\ strategyOutcome = NoOutcome
    /\ apiOutcome = NoOutcome
    /\ toolOutcome = NoOutcome
    /\ event = Ev("init")
    /\ callLog = <<>>
    /\ taskPc = [t \in Tasks |-> "idle"]
    /\ taskDriver = [t \in Tasks |-> 0]
    /\ browsers = <<>>
    /\ ppc = "idle"
    /\ clock = 0
    /\ wait_start = 0
    /\ PromptIdle
    /\ clipboard \in ClipboardsBefore
    /\ call = 0
    /\ copying = 0

\* get_screenshot_link up to the strategy: the cookies and the navigation.
\* The page of the call before is left, and with it what it was still
\* doing; the clipboard is not written.
ClipCall ==
    /\ pc = "idle"
    /\ call < MaxClipCalls
    /\ call' = call + 1
    /\ copying' = 0
    /\ pc' = "link_send"
    /\ attempt' = 0
    /\ polls' = 0
    /\ clipboard_content' = None
    /\ shortcutsSent' = 0
    /\ apiOutcome' = NoOutcome
    /\ event' = Ev("navigate")
    /\ UNCHANGED <<ClipRest, clipboard>>

\* the call ends with value v
ClipReturns(v) ==
    /\ apiOutcome' = Returned(v)
    /\ pc' = "idle"
    /\ UNCHANGED <<attempt, polls>>

\* Alt+S; a WebDriverException breaks the retry loop and None is returned
ClipSend ==
    /\ pc = "link_send"
    /\ \E o \in {"ok", "driver_fault"} :
        IF o = "ok"
        THEN /\ shortcutsSent' = shortcutsSent + 1
             /\ copying' = call
             /\ pc' = "link_poll"
             /\ polls' = 0
             /\ UNCHANGED <<attempt, apiOutcome>>
        ELSE /\ ClipReturns(None)
             /\ UNCHANGED <<shortcutsSent, copying>>
    /\ event' = Ev("link_send")
    /\ UNCHANGED <<ClipRest, clipboard, call, clipboard_content>>

\* the page has made the snapshot for the shortcut and copies its link
PageCopies ==
    /\ copying # 0
    /\ clipboard' = ShareLinkOf(copying)
    /\ copying' = 0
    /\ event' = Ev("page_copies")
    /\ UNCHANGED <<ClipRest, call, pc, attempt, polls, clipboard_content, shortcutsSent,
                   apiOutcome>>

\* one round of the polling loop: content that is not blank is returned
ClipPoll ==
    /\ pc = "link_poll"
    /\ polls < MaxPolls
    /\ \E r \in {Some(clipboard), DriverFault} :
        /\ event' = EvRead("link_read", r)
        /\ IF r # DriverFault /\ HasContent(r)
           THEN /\ clipboard_content' = Some(Strip(r.val))
                /\ ClipReturns(Some(Strip(r.val)))
           ELSE /\ polls' = NextPoll(polls)
                /\ UNCHANGED <<clipboard_content, pc, attempt, apiOutcome>>
    /\ UNCHANGED <<ClipRest, clipVars, shortcutsSent>>

\* the final read of the attempt; without content the next attempt, or
\* None after the last
ClipFinalRead ==
    /\ pc = "link_poll"
    /\ polls >= 1
    /\ \E r \in {Some(clipboard), DriverFault} :
        LET content == IF r = DriverFault THEN None ELSE r
        IN  /\ event' = EvRead("link_read", r)
            /\ IF HasContent(content)
               THEN /\ clipboard_content' = content
                    /\ ClipReturns(Some(Strip(content.val)))
               ELSE /\ clipboard_content' = None
                    /\ attempt' = attempt + 1
                    /\ polls' = 0
                    /\ IF LastAttempt(attempt)
                       THEN /\ apiOutcome' = Returned(None)
                            /\ pc' = "idle"
                       ELSE /\ pc' = "link_send"
                            /\ apiOutcome' = apiOutcome
    /\ UNCHANGED <<ClipRest, clipVars, shortcutsSent>>

NextClip == ClipCall \/ ClipSend \/ PageCopies \/ ClipPoll \/ ClipFinalRead

SpecClip == InitClip /\ [][NextClip]_vars

\* C35: a link returned by get_screenshot_link is the one the page copied
\* for a capture shortcut of that same call; what was on the clipboard
\* before the call is never the call's result
C35_AsStated ==
    (call > 0 /\ apiOutcome.kind = "returned" /\ Truthy(apiOutcome.val)) =>
        /\ shortcutsSent >= 1
        /\ apiOutcome.val = Some(Strip(ShareLinkOf(call)))

----------------------------------------------------------------------------
(* Calls on a scraper after close()                                        *)

\* C36: after close() was called on a scraper (and no browser was started
\* for it again), every call of get_screenshot_link or get_chart_image_url
\* raises TradingViewScraperError before any driver interaction
C36_AsStated ==
    \A i, j \in DOMAIN callLog :
        (/\ i < j
         /\ callLog[i].op = "close"
         /\ callLog[j].op \in {"get_screenshot_link", "get_chart_image_url"}
         /\ \A k \in (i + 1)..(j - 1) : ~callLog[k].started)
        => callLog[j].outcome = "TradingViewScraperError"

\* what holds: after a close() that left self.driver None, every call raises
\* TradingViewScraperError before any driver interaction
CallAfterReleaseRefused ==
    \A i, j \in DOMAIN callLog :
        (/\ i < j
         /\ callLog[i].op = "close"
         /\ callLog[i].outcome = "None"
         /\ callLog[j].op \in {"get_screenshot_link", "get_chart_image_url"}
         /\ \A k \in (i + 1)..(j - 1) : ~callLog[k].started)
        => callLog[j].outcome = "TradingViewScraperError"

----------------------------------------------------------------------------
(* Concurrent invocations of the MCP tool on the event loop of the server: *)
(* the tool is a coroutine, and another invocation runs only while this    *)
(* one is suspended at an await                                            *)

\* Alt+S of _trigger_screenshot_and_get_link
LoopShortcut(t) == TaskPhase(t, "shortcut", "read")

\* the clipboard reads of _trigger_screenshot_and_get_link
LoopRead(t) == TaskPhase(t, "read", "convert")

\* the check of the link and convert_link_to_image_url
LoopConvert(t) ==
    /\ taskPc[t] = "convert"
    /\ \E ok \in BOOLEAN : taskPc' = [taskPc EXCEPT ![t] = IF ok THEN "info" ELSE "exit"]
    /\ UNCHANGED <<ConcRest, taskDriver, browsers>>

\* invocation t is between two awaits of the with body: it has acquired its
\* session and has not yet reached "await ctx.info" after the conversion
InCapture(t) == taskPc[t] \in {"auth", "navigate", "shortcut", "read", "convert"}

\* every invocation runs on a thread of its own
MayRun_Threads(t) == TRUE

\* the event loop runs one coroutine at a time and switches only at an await
MayRun(t) == \A u \in Tasks \ {t} : ~InCapture(u)

NextLoop ==
    \E t \in Tasks :
        \/ MayRun(t) /\ TaskInfo(t)
        \/ MayRun(t) /\ TaskEnter(t)
        \/ MayRun(t) /\ TaskAuth(t)
        \/ MayRun(t) /\ TaskNavigate(t)
        \/ MayRun(t) /\ LoopShortcut(t)
        \/ MayRun(t) /\ LoopRead(t)
        \/ MayRun(t) /\ LoopConvert(t)
        \/ MayRun(t) /\ TaskAwait(t)
        \/ MayRun(t) /\ TaskExit(t)
        \/ MayRun(t) /\ TaskReport(t)

SpecLoop == InitConc /\ [][NextLoop]_vars

\* C37: the capture steps of two concurrent invocations never interleave:
\* while an invocation is between the acquisition of its session and the
\* end of the conversion, no other invocation takes a step, so at most one
\* invocation is sending the shortcut or reading the clipboard
C37_CapturesDoNotInterleave ==
    [][\A t \in Tasks :
          InCapture(t) =>
              /\ \A u \in Tasks \ {t} : taskPc'[u] = taskPc[u] /\ ~InCapture(u)
              /\ browsers' # browsers => browsers' = SendCommand(t, browsers)]_vars

\* an invocation is about to read the clipboard while another, issued
\* concurrently, waits inside its with statement with its browser open and a
\* third waits to start
C37_Witness ==
    \E t, u, w \in Tasks :
        /\ taskPc[t] = "read"
        /\ taskPc[u] = "info"
        /\ taskPc[w] = "enter"
        /\ browsers[taskDriver[u]].live

====
